---------------------------- MODULE Spec2Model ----------------------------
(***************************************************************************)
(* Model of the inception audit gateway (src/sql/inception): one client    *)
(* session driving the marker state machine, the interceptor, the audit    *)
(* pass and the remote execution engine, and one admin session issuing     *)
(* `inception kill` against it.                                            *)
(*                                                                         *)
(* The session context is the record ctx (InceptionContext).  The owner    *)
(* thread's position inside do_inception_commit / execute_statements is    *)
(* pc; the admin thread's position inside kill_session is kpc.  The owner  *)
(* thread never takes g_ctx_mutex while it mutates its own context, so the *)
(* admin thread's critical section interleaves with the owner's steps.     *)
(***************************************************************************)
EXTENDS Integers, Sequences, FiniteSets

(* ---- bounds of the model ---- *)

\* Largest number of statements (parsed or failed to parse) in one batch.
MaxStmts == 2

(* ---- program constants ---- *)

ERRLEVEL_OK == 0
ERRLEVEL_WARNING == 1
ERRLEVEL_ERROR == 2

STAGE_NONE == 0
STAGE_CHECKED == 1
STAGE_EXECUTED == 2
STAGE_SKIPPED == 3

\* Thread id the remote target assigns to the execution connection
\* (mysql->thread_id, any non-zero value).
RemoteTid == 7

Modes == {"CHECK", "EXECUTE", "SPLIT", "QUERY_TREE"}

\* Statement kinds delivered by the parser (enum_sql_command); SQLCOM_END is
\* what handle_parse_error records for a statement that failed to parse.
SQLCOM_END == "SQLCOM_END"

\* The table every table statement of the model names, qualified (d1.t1),
\* and the database every USE of the model names.
TheDb == "d1"
TheTable == "t1"

\* The replicas a session can name in slave-hosts.
Slaves == {"s1"}

\* The throttle with both caps disabled (the defaults of
\* inception_exec_max_threads_running and inception_exec_max_replication_delay)
\* and a session without slave-hosts.
\* The connection ids of the session under study and of the other connection.
OwnerTid == 1

OtherTid == 2

\* No admin command has run yet.
NoAdmin == [op |-> "none", ms |-> 0, result |-> "none", rows |-> <<>>]

\* The other connection has no inception session open.
NoOther == [active |-> FALSE, killed |-> FALSE, sleep_ms |-> 0]

NoThrottle ==
  [threads_cap |-> FALSE, delay_cap |-> FALSE, slave_hosts |-> {},
   reachable |-> {}, last_threads_running |-> 0, last_repl_delay |-> -1]

\* No ALTER TABLE under prediction; db_version_major defaults to 8.
NoAlter ==
  [flags |-> {}, used_engine |-> FALSE, major |-> 8, ddl_algorithm |-> ""]

VARIABLES
  ctx,        \* the session's InceptionContext
  pc,         \* owner thread: "idle" | "start_setup" | "exec_begin" |
              \* "exec_loop" | "inflight" | "commit_send"
  idx,        \* execute_statements: number of cache nodes the loop has visited
  stop_exec,  \* execute_statements: local stop_exec
  has_error,  \* execute_statements: local has_error
  mysql,      \* execute_statements: the execution connection is open
  reply,      \* what the front-end got back for the owner's latest request
  kpc,        \* admin thread inside kill_session: "idle" | "found" | "stored"
  sent,       \* remote target: ids of the statements dispatched in this batch
  kills,      \* remote target: thread ids a KILL was issued for in this batch
  stream,     \* statements delivered by the front-end since the latest magic_start
  commit_level,\* highest errlevel in the batch when magic_commit was received
  failed,     \* id of the first statement whose remote execution failed, else 0
  thd_db,     \* the connection's current database (thd->db()), "" when none
  alter,      \* the ALTER TABLE under prediction: flags, create-info, target
              \* major version, and the ddl_algorithm predicted for it
  stmt_log,   \* ghost: ids of the statement-level lines audit_log_statement
              \* wrote to the audit log since the last magic_start
  session_log, \* ghost: the session-level records audit_log_session wrote
              \* since the last magic_start
  remote_open, \* the MYSQL handle get_remote_conn opened for the connection
              \* has not been passed to mysql_close
  connects,   \* ghost: the connect attempts to the remote target since the
              \* last magic_start: who made it and whether it succeeded
  throttle,   \* the execution throttle: whether the two caps are enabled,
              \* the session's slave-hosts and which of them can be reached,
              \* the last Threads_running and replication delay polled
  pauses,     \* ghost: for each statement the loop of execute_statements
              \* has run in this batch, its id and the milliseconds slept
              \* after it (0 when the loop did not sleep)
  sleep_set,  \* ghost: the sleep value last given to this batch: the sleep
              \* option of its magic_start (0 when absent), then the value
              \* of each `inception set sleep` completed on the session
  admin,      \* admin session: the command it is running (ms is the value
              \* of a set sleep until it is stored) and the answer to its
              \* latest command
  others      \* the context of another connection in g_ctx_map: its active
              \* flag, killed flag and sleep_ms

vars == <<ctx, pc, idx, stop_exec, has_error, mysql, reply, kpc, sent, kills,
          stream, commit_level, failed, thd_db,
          alter,
          stmt_log, session_log, remote_open,
          connects,
          throttle,
          pauses, sleep_set, admin, others>>

(* ---- helpers ---- *)

Range(s) == {s[i] : i \in DOMAIN s}

Max(a, b) == IF a >= b THEN a ELSE b

RECURSIVE MaxErrlevel(_)
MaxErrlevel(nodes) ==
  IF nodes = <<>> THEN ERRLEVEL_OK
  ELSE Max(nodes[1].errlevel, MaxErrlevel(Tail(nodes)))

(* ---- SqlCacheNode ---- *)

NewNode(id, cmd) ==
  [id |-> id, sql_command |-> cmd, stage |-> STAGE_NONE,
   errlevel |-> ERRLEVEL_OK, errmsg |-> <<>>, stage_status |-> ""]

AppendError(node, msg) ==
  [node EXCEPT !.errmsg = Append(@, msg),
               !.errlevel = IF @ < ERRLEVEL_ERROR THEN ERRLEVEL_ERROR ELSE @]

\* Faulty variant of append_warning: the level is assigned, not raised.
AppendWarningAssign(node, msg) ==
  [node EXCEPT !.errmsg = Append(@, msg), !.errlevel = ERRLEVEL_WARNING]

AppendWarning(node, msg) ==
  [node EXCEPT !.errmsg = Append(@, msg),
               !.errlevel = IF @ < ERRLEVEL_WARNING THEN ERRLEVEL_WARNING ELSE @]

\* Faulty variant of report: the level is assigned, not raised.
ReportAssign(node, level, msg) ==
  IF level = 0 THEN node
  ELSE [node EXCEPT !.errmsg = Append(@, msg),
                    !.errlevel = IF level >= 2 THEN ERRLEVEL_ERROR
                                 ELSE ERRLEVEL_WARNING]

Report(node, level, msg) ==
  IF level = 0 THEN node
  ELSE LET int_level == IF level >= 2 THEN ERRLEVEL_ERROR ELSE ERRLEVEL_WARNING
       IN [node EXCEPT !.errmsg = Append(@, msg),
                       !.errlevel = IF @ < int_level THEN int_level ELSE @]

(* ---- InceptionContext ---- *)

Reset(c) ==
  [active |-> FALSE, mode |-> "CHECK", force |-> FALSE,
   ignore_warnings |-> FALSE, killed |-> FALSE, remote_exec_thread_id |-> 0,
   remote_conn |-> FALSE, remote_conn_failed |-> FALSE,
   cache_nodes |-> <<>>, next_id |-> 1, split_nodes |-> <<>>,
   current_usedb |-> "", tree_nodes |-> <<>>, altered_tables |-> {},
   batch_tables |-> {}, batch_cols |-> {}, batch_databases |-> {},
   sleep_ms |-> 0]

\* InceptionContext::reset, the throttle's part: slave_hosts and the last
\* polled values.
ResetThrottle(t) ==
  [t EXCEPT !.slave_hosts = {}, !.last_threads_running = 0,
            !.last_repl_delay = -1]

\* Faulty variant of add_sql: next_id is not advanced.
AddSqlSameId(c, cmd) ==
  [c EXCEPT !.cache_nodes = Append(@, NewNode(c.next_id, cmd))]

AddSql(c, cmd) ==
  [c EXCEPT !.cache_nodes = Append(@, NewNode(c.next_id, cmd)),
            !.next_id = @ + 1]

\* get_remote_conn: reuse the handle, never retry a failed connect, else try.
GetRemoteConn(c, connOk) ==
  IF c.remote_conn THEN c
  ELSE IF c.remote_conn_failed THEN c
  ELSE IF connOk THEN [c EXCEPT !.remote_conn = TRUE]
  ELSE [c EXCEPT !.remote_conn_failed = TRUE]

Init ==
  /\ ctx = Reset(<<>>)
  /\ pc = "idle"
  /\ idx = 0
  /\ stop_exec = FALSE
  /\ has_error = FALSE
  /\ mysql = FALSE
  /\ reply = [kind |-> "none", rows |-> <<>>]
  /\ kpc = "idle"
  /\ sent = <<>>
  /\ kills = {}
  /\ stream = <<>>
  /\ commit_level = 0
  /\ failed = 0
  /\ thd_db = TheDb
  /\ alter = NoAlter
  /\ stmt_log = <<>>
  /\ session_log = <<>>
  /\ remote_open = FALSE
  /\ connects = <<>>
  /\ throttle = NoThrottle


(* ---- inputs ---- *)

\* Decoded magic_start comments: valid is FALSE for a comment that
\* parse_inception_start rejects (explicit port 0 or above 65535).
  /\ pauses = <<>>
  /\ sleep_set = 0
  /\ admin = NoAdmin
  /\ others = NoOther
StartOpts ==
  [valid : {TRUE}, mode : {"EXECUTE"}, force : BOOLEAN, ignore_warnings : BOOLEAN]
  \cup [valid : {TRUE}, mode : Modes \ {"EXECUTE"}, force : {FALSE},
        ignore_warnings : {FALSE}]
  \cup [valid : {FALSE}, mode : {"EXECUTE"}, force : {TRUE},
        ignore_warnings : {FALSE}]

\* Parsed statements of a check/execute batch with what the rule engine and
\* the remote lookups find for them: rules is the sequence of rule reports
\* (each a knob severity), lookup the outcome of the existence lookup on the
\* remote (the table is found, is absent, or the query failed to run),
\* merge_knob the severity of opt_check_merge_alter_table.
AuditInputs ==
  [cmd : {"CREATE_TABLE"}, lookup : {"absent"}, rules : {<<>>, <<1>>, <<2>>},
   merge_knob : {0}, cols : {{}}, drops : {{}}, remote_cols : {{}},
   explain : {"few"}, rows : {"few"}, db : {TheDb}]
  \cup [cmd : {"ALTER_TABLE"}, lookup : {"found"}, rules : {<<>>},
        merge_knob : {1}, cols : {{}}, drops : {{}}, remote_cols : {{}},
        explain : {"few"}, rows : {"few"}, db : {TheDb}]
  \cup [cmd : {"CHANGE_DB"}, lookup : {"found"}, rules : {<<>>},
        merge_knob : {0}, cols : {{}}, drops : {{}}, remote_cols : {{}},
        explain : {"few"}, rows : {"few"}, db : {TheDb}]

\* Statement kinds submitted in query-tree batches.
GroupCmds == {"CHANGE_DB", "SET_OPTION", "INSERT", "ALTER_TABLE"}

\* Statements submitted in split batches: cmd is the statement kind, db the
\* database it names (the qualifier of its table, "" when unqualified; the
\* database of a USE), tbl its table ("" for a statement without a table).
SplitStmts(cmds, dbs, tbls) ==
  [cmd : cmds, db : dbs, tbl : tbls]
  \cup [cmd : {"CHANGE_DB"}, db : dbs \ {""}, tbl : {""}]
  \cup [cmd : {"SET_OPTION"}, db : {""}, tbl : {""}]

\* Split batches of the main specification: statements on d1.t1.
SplitInputs == SplitStmts({"INSERT", "ALTER_TABLE"}, {TheDb}, {TheTable})

(* ---- session state machine: magic_start ---- *)

\* parse_inception_start: reset, parse_option for every token, then the port
\* check; active is set only when the port check passes.
ParseInceptionStart(c, o) ==
  [Reset(c) EXCEPT !.mode = o.mode, !.force = o.force,
                   !.ignore_warnings = o.ignore_warnings,
                   !.active = o.valid]

\* before_parse for a query whose first comment holds inception_magic_start,
\* up to get_context inside setup_inception_session.  get_context takes
\* g_ctx_mutex, which kill_session holds from its lookup to its store.
MagicStart ==
  /\ pc = "idle"
  /\ kpc = "idle"
  /\ pc' = "start_setup"
  /\ reply' = [kind |-> "pending", rows |-> <<>>]
  /\ UNCHANGED <<ctx, idx, stop_exec, has_error, mysql, kpc, sent, kills,
                 stream, commit_level, failed, thd_db, alter, stmt_log,
                 session_log,
                 connects,
                 throttle,
                 pauses, sleep_set, admin, others>>
  /\ remote_open' = ctx'.remote_conn

\* The rest of setup_inception_session, on the context pointer and without
\* the mutex: parse_inception_start, then maybe_detect_remote_db_profile.
SetupInceptionSession(o, connOk) ==
  /\ pc = "start_setup"
  /\ LET c1 == ParseInceptionStart(ctx, o)
     IN IF ~c1.active
        THEN /\ ctx' = c1
             /\ reply' = [kind |-> "error", rows |-> <<>>]
        ELSE \* maybe_detect_remote_db_profile
             /\ ctx' = GetRemoteConn(c1, connOk)
             /\ reply' = [kind |-> "ok", rows |-> <<>>]
  /\ pc' = "idle"
  /\ stream' = <<>>
  /\ sent' = <<>>
  /\ kills' = {}
  /\ commit_level' = 0
  /\ failed' = 0
  /\ stmt_log' = <<>>
  /\ throttle' = ResetThrottle(throttle)
  /\ connects' = IF o.valid THEN <<[by |-> "start", ok |-> connOk]>> ELSE <<>>
  /\ session_log' = <<>>
  /\ pauses' = <<>>
  /\ sleep_set' = 0
  /\ UNCHANGED <<idx, stop_exec, has_error, mysql, kpc, thd_db, alter,
                 admin, others>>
  /\ remote_open' = ctx'.remote_conn

(* ---- parse errors ---- *)

ParseErrMsg == "SQL parse error"

\* handle_parse_error on an active session.
HandleParseError ==
  /\ pc = "idle"
  /\ kpc = "idle"
  /\ ctx.active
  /\ Len(stream) < MaxStmts
  /\ LET c1 == AddSql(ctx, SQLCOM_END)
         n  == Len(c1.cache_nodes)
         node == AppendError([c1.cache_nodes[n] EXCEPT
                                !.stage = STAGE_CHECKED,
                                !.stage_status = "Audit completed"],
                             ParseErrMsg)
     IN ctx' = [c1 EXCEPT !.cache_nodes[n] = node]
  /\ stream' = Append(stream, SQLCOM_END)
  /\ reply' = [kind |-> "ok", rows |-> <<>>]
  /\ UNCHANGED <<pc, idx, stop_exec, has_error, mysql, kpc, sent, kills,
                 commit_level, failed, thd_db, alter, stmt_log, session_log,
                 connects,
                 throttle,
                 pauses, sleep_set, admin, others>>
  /\ remote_open' = ctx'.remote_conn


(* ---- audit (check and execute mode) ---- *)

RECURSIVE ApplyRules(_, _)
\* The rule reports of one audit handler, in order.
ApplyRules(node, rules) ==
  IF rules = <<>> THEN node
  ELSE ApplyRules(Report(node, Head(rules), "rule"), Tail(rules))

\* remote_table_exists: FALSE when the table is absent and also when the
\* query fails to run or returns no result.
RemoteTableExists(lookup) == lookup = "found"

\* tolower on every character of a column name.
Lower(name) == IF name = "A" THEN "a" ELSE name

\* batch_table_key with the one database and table of the model.
BatchTableKey == <<TheDb, TheTable>>

\* The entries of batch_tables: batch_tables holds the keys of the map,
\* batch_cols the members of each key's column set as <<db, table, column>>.
BatchCols(key, cols) == {<<key[1], key[2], Lower(col)>> : col \in cols}

\* batch_column_exists: the table is tracked and its column set has the
\* lower-cased name.
BatchColumnExists(c, key, col) ==
  /\ key \in c.batch_tables
  /\ <<key[1], key[2], Lower(col)>> \in c.batch_cols

\* remote_column_exists: the lookup compares names without regard to case.
RemoteColumnExists(in, col) == Lower(col) \in in.remote_cols

\* Faulty variant of the drop of a tracked column: the name is erased as
\* written.
EraseColumnAsWritten(cols, key, col) == cols \ {<<key[1], key[2], col>>}

\* std::set::erase of the lower-cased name from the table's column set.
EraseColumn(cols, key, col) == cols \ {<<key[1], key[2], Lower(col)>>}

\* The knobs of the rules the handlers below report on their own, at their
\* default severity.
opt_check_column_exists == 2

opt_check_drop_table == 1

opt_check_truncate_table == 1

opt_check_drop_database == 2

\* The column-exists check of INSERT and UPDATE on the columns they name (at
\* most one per statement here).
CheckColumnsExist(c, node, in) ==
  LET key == BatchTableKey
  IN IF in.cols = {} \/ opt_check_column_exists = 0 THEN node
     ELSE LET col == CHOOSE x \in in.cols : TRUE
          IN IF key \in c.batch_tables
             THEN IF ~BatchColumnExists(c, key, col)
                  THEN Report(node, opt_check_column_exists,
                              "column does not exist")
                  ELSE node
             ELSE IF c.remote_conn /\ ~RemoteColumnExists(in, col)
                  THEN Report(node, opt_check_column_exists,
                              "column does not exist")
                  ELSE node

\* The queries about the table a column check sends to the remote.
ColumnProbes(c, in) ==
  IF BatchTableKey \notin c.batch_tables /\ c.remote_conn /\ in.cols # {}
  THEN {"column"} ELSE {}

\* audit_create_table: existence in the batch or on the remote, the rules,
\* then the table and its columns are tracked in the batch schema.
AuditCreateTable(c, node, in) ==
  LET key == BatchTableKey
      n1 == IF key \in c.batch_tables
            THEN AppendError(node, "exists in batch")
            ELSE IF c.remote_conn /\ RemoteTableExists(in.lookup)
                 THEN AppendError(node, "exists on remote")
                 ELSE node
      n2 == ApplyRules(n1, in.rules)
  IN [node |-> n2,
      ctx |-> [c EXCEPT !.batch_tables = @ \cup {key},
                        !.batch_cols = {e \in @ : <<e[1], e[2]>> # key}
                                       \cup BatchCols(key, in.cols)],
      probes |-> IF key \notin c.batch_tables /\ c.remote_conn
                 THEN {"exists"} ELSE {}]

\* audit_alter_table: remote existence and row count unless the table is
\* batch-created, the rules, ADD COLUMN then DROP COLUMN (at most one column
\* each here) against the batch schema or the remote, then the merge-alter
\* check.
AuditAlterTable(c, node, in) ==
  LET key == BatchTableKey
      in_batch == key \in c.batch_tables
      n1 == IF ~in_batch /\ c.remote_conn /\ ~RemoteTableExists(in.lookup)
            THEN AppendError(node, "does not exist on remote")
            ELSE node
      n2 == ApplyRules(n1, in.rules)
      add == IF in.cols = {} THEN "" ELSE CHOOSE x \in in.cols : TRUE
      nAdd == IF in.cols = {} THEN n2
              ELSE IF in_batch
              THEN IF BatchColumnExists(c, key, add)
                   THEN AppendError(n2, "column already exists")
                   ELSE n2
              ELSE IF c.remote_conn /\ RemoteColumnExists(in, add)
              THEN AppendError(n2, "column already exists on remote")
              ELSE n2
      cAdd == IF in.cols # {} /\ in_batch
              THEN [c EXCEPT !.batch_cols = @ \cup BatchCols(key, in.cols)]
              ELSE c
      drop == IF in.drops = {} THEN "" ELSE CHOOSE x \in in.drops : TRUE
      nWarn == IF in.drops = {} THEN nAdd
               ELSE AppendWarning(nAdd, "dropping column")
      nDrop == IF in.drops = {} THEN nWarn
               ELSE IF in_batch
               THEN IF ~BatchColumnExists(cAdd, key, drop)
                    THEN AppendError(nWarn, "column does not exist")
                    ELSE nWarn
               ELSE IF c.remote_conn /\ ~RemoteColumnExists(in, drop)
               THEN AppendError(nWarn, "column does not exist on remote")
               ELSE nWarn
      cDrop == IF in.drops # {} /\ in_batch
                  /\ BatchColumnExists(cAdd, key, drop)
               THEN [cAdd EXCEPT !.batch_cols = EraseColumn(@, key, drop)]
               ELSE cAdd
      n3 == IF in.merge_knob > 0 /\ key \in c.altered_tables
            THEN Report(nDrop, in.merge_knob, "altered before")
            ELSE nDrop
  IN [node |-> n3,
      ctx |-> IF in.merge_knob > 0
              THEN [cDrop EXCEPT !.altered_tables = @ \cup {key}]
              ELSE cDrop,
      probes |-> IF ~in_batch /\ c.remote_conn
                 THEN {"exists", "rows"}
                      \cup (IF in.cols # {} \/ in.drops # {}
                            THEN {"column"} ELSE {})
                 ELSE {}]

\* audit_insert: the table exists in the batch or on the remote, the rules,
\* the columns named exist.
AuditInsert(c, node, in) ==
  LET key == BatchTableKey
      lookup == key \notin c.batch_tables /\ c.remote_conn
      n1 == IF lookup /\ ~RemoteTableExists(in.lookup)
            THEN AppendError(node, "does not exist on remote")
            ELSE node
      n2 == ApplyRules(n1, in.rules)
  IN [node |-> CheckColumnsExist(c, n2, in), ctx |-> c,
      probes |-> (IF lookup THEN {"exists"} ELSE {}) \cup ColumnProbes(c, in)]

\* The row estimate of audit_update and audit_delete: EXPLAIN on the remote,
\* then the table's row count when EXPLAIN gave none; a warning above
\* opt_check_max_update_rows.
EstimateRows(c, node, in) ==
  IF c.remote_conn
     /\ (in.explain = "many" \/ (in.explain = "failed" /\ in.rows = "many"))
  THEN AppendWarning(node, "exceeds max rows")
  ELSE node

\* The queries the row estimate sends.
EstimateProbes(c, in) ==
  IF ~c.remote_conn THEN {}
  ELSE IF in.explain = "failed" THEN {"explain", "rows"} ELSE {"explain"}

\* audit_update: the table exists in the batch or on the remote, the rules,
\* the row estimate, the columns set exist.
AuditUpdate(c, node, in) ==
  LET key == BatchTableKey
      lookup == key \notin c.batch_tables /\ c.remote_conn
      n1 == IF lookup /\ ~RemoteTableExists(in.lookup)
            THEN AppendError(node, "does not exist on remote")
            ELSE node
      n2 == EstimateRows(c, ApplyRules(n1, in.rules), in)
  IN [node |-> CheckColumnsExist(c, n2, in), ctx |-> c,
      probes |-> (IF lookup THEN {"exists"} ELSE {})
                 \cup EstimateProbes(c, in) \cup ColumnProbes(c, in)]

\* audit_delete: the table exists in the batch or on the remote, the rules,
\* the row estimate.
AuditDelete(c, node, in) ==
  LET key == BatchTableKey
      lookup == key \notin c.batch_tables /\ c.remote_conn
      n1 == IF lookup /\ ~RemoteTableExists(in.lookup)
            THEN AppendError(node, "does not exist on remote")
            ELSE node
  IN [node |-> EstimateRows(c, ApplyRules(n1, in.rules), in), ctx |-> c,
      probes |-> (IF lookup THEN {"exists"} ELSE {})
                 \cup EstimateProbes(c, in)]

\* audit_drop_table: the drop-table rule and nothing else.
AuditDropTable(c, node, in) ==
  [node |-> Report(node, opt_check_drop_table, "drop table"), ctx |-> c,
   probes |-> {}]

\* audit_truncate: the truncate rule; unless the table is batch-created, its
\* existence on the remote and, when it exists, its row count.
AuditTruncate(c, node, in) ==
  LET key == BatchTableKey
      lookup == key \notin c.batch_tables /\ c.remote_conn
      n1 == Report(node, opt_check_truncate_table, "truncate table")
  IN [node |-> IF lookup /\ ~RemoteTableExists(in.lookup)
               THEN AppendError(n1, "does not exist on remote")
               ELSE n1,
      ctx |-> c,
      probes |-> IF ~lookup THEN {}
                 ELSE IF RemoteTableExists(in.lookup)
                 THEN {"exists", "rows"} ELSE {"exists"}]

\* audit_create_db: the database exists on the remote (remote_db_exists, in
\* lookup), then the rules on its name and charset.
AuditCreateDb(c, node, in) ==
  LET n1 == IF c.remote_conn /\ in.lookup = "found"
            THEN AppendError(node, "database exists on remote")
            ELSE node
  IN [node |-> ApplyRules(n1, in.rules), ctx |-> c, probes |-> {}]

\* audit_drop_db: the drop-database rule, the database's existence on the
\* remote, then the database is put in batch_databases.
AuditDropDb(c, node, in) ==
  LET n1 == Report(node, opt_check_drop_database, "drop database")
      n2 == IF c.remote_conn /\ in.lookup # "found"
            THEN AppendWarning(n1, "database does not exist on remote")
            ELSE n1
  IN [node |-> n2, ctx |-> [c EXCEPT !.batch_databases = @ \cup {in.db}],
      probes |-> {}]

\* audit_statement on the node just cached (the last one): the node and the
\* context after the audit, and the queries about the statement's table the
\* audit sent to the remote.
AuditResult(c, in, connOk) ==
  LET n  == Len(c.cache_nodes)
      c1 == IF ~c.remote_conn /\ ~c.remote_conn_failed
            THEN GetRemoteConn(c, connOk) ELSE c
      n0 == [c1.cache_nodes[n] EXCEPT !.stage = STAGE_CHECKED,
                                      !.stage_status = "Audit completed"]
      n1 == IF c1.remote_conn_failed
            THEN AppendError(n0, "Cannot connect to remote server")
            ELSE n0
  IN CASE in.cmd = "CREATE_TABLE" -> AuditCreateTable(c1, n1, in)
       [] in.cmd = "ALTER_TABLE" -> AuditAlterTable(c1, n1, in)
       [] in.cmd = "INSERT" -> AuditInsert(c1, n1, in)
       [] in.cmd = "UPDATE" -> AuditUpdate(c1, n1, in)
       [] in.cmd = "DELETE" -> AuditDelete(c1, n1, in)
       [] in.cmd = "DROP_TABLE" -> AuditDropTable(c1, n1, in)
       [] in.cmd = "TRUNCATE" -> AuditTruncate(c1, n1, in)
       [] in.cmd = "CREATE_DB" -> AuditCreateDb(c1, n1, in)
       [] in.cmd = "DROP_DB" -> AuditDropDb(c1, n1, in)
       [] OTHER -> [node |-> n1, ctx |-> c1, probes |-> {}]

AuditStatement(c, in, connOk) ==
  LET r == AuditResult(c, in, connOk)
  IN [r.ctx EXCEPT !.cache_nodes[Len(c.cache_nodes)] = r.node]

(* ---- interceptor ---- *)

\* intercept_statement, check and execute mode: cache, audit, track USE.
\* max bounds the statements of a batch.
InterceptAuditWithin(in, connOk, max) ==
  /\ pc = "idle"
  /\ kpc = "idle"
  /\ ctx.active
  /\ ctx.mode \in {"CHECK", "EXECUTE"}
  /\ Len(stream) < max
  /\ ctx' = AuditStatement(AddSql(ctx, in.cmd), in, connOk)
  /\ thd_db' = IF in.cmd = "CHANGE_DB" THEN TheDb ELSE thd_db
  /\ stream' = Append(stream, in.cmd)
  /\ connects' = IF ~ctx.remote_conn /\ ~ctx.remote_conn_failed
                 THEN Append(connects, [by |-> "audit", ok |-> connOk])
                 ELSE connects
  /\ reply' = [kind |-> "ok", rows |-> <<>>]
  /\ UNCHANGED <<pc, idx, stop_exec, has_error, mysql, kpc, sent, kills,
                 commit_level, failed, alter, stmt_log, session_log,
                 throttle,
                 pauses, sleep_set, admin, others>>
  /\ remote_open' = ctx'.remote_conn

\* intercept_statement in a batch of at most MaxStmts statements.
InterceptAudit(in, connOk) == InterceptAuditWithin(in, connOk, MaxStmts)

\* is_ddl of the split grouper, over the statement kinds of the model.
IsDdl(cmd) ==
  cmd \in {"CREATE_TABLE", "ALTER_TABLE", "DROP_TABLE", "TRUNCATE",
           "CREATE_DB", "DROP_DB"}

\* Faulty variant of ddlflag: DROP TABLE is not counted as high-risk.
DdlFlagAlterOnly(cmd) == IF cmd = "ALTER_TABLE" THEN 1 ELSE 0

\* ddlflag of a statement: 1 for ALTER TABLE and DROP TABLE.
DdlFlag(cmd) == IF cmd \in {"ALTER_TABLE", "DROP_TABLE"} THEN 1 ELSE 0

\* The USE statement split mode puts in front of a new group.
UseStmt(db) == [cmd |-> "CHANGE_DB", db |-> db, tbl |-> ""]

\* Faulty variant of the split grouper: the DDL/DML class of the last group
\* is not compared.
SplitAddAnyClass(c, st, db_name, tbl_name) ==
  LET k == Len(c.split_nodes)
      merged == /\ k > 0
                /\ c.split_nodes[k].table_name = tbl_name
                /\ c.split_nodes[k].db_name = db_name
      use_prefix == IF c.current_usedb # "" THEN <<UseStmt(c.current_usedb)>>
                    ELSE IF db_name # "" THEN <<UseStmt(db_name)>>
                    ELSE <<>>
  IN IF merged
     THEN [c EXCEPT !.split_nodes[k].sql_text = Append(@, st),
                    !.split_nodes[k].ddlflag =
                        IF DdlFlag(st.cmd) = 1 THEN 1 ELSE @]
     ELSE [c EXCEPT !.split_nodes =
             Append(@, [sql_text |-> Append(use_prefix, st),
                        db_name |-> db_name, table_name |-> tbl_name,
                        ddlflag |-> DdlFlag(st.cmd),
                        is_ddl_type |-> IsDdl(st.cmd)])]

\* The split grouper: merge the statement into the last group or start a
\* new one.  The text of a group is the sequence of its statements, a new
\* group starting with USE <current_usedb or db_name> when there is one.
SplitAdd(c, st, db_name, tbl_name) ==
  LET k == Len(c.split_nodes)
      merged == /\ k > 0
                /\ c.split_nodes[k].table_name = tbl_name
                /\ c.split_nodes[k].db_name = db_name
                /\ c.split_nodes[k].is_ddl_type = IsDdl(st.cmd)
      use_prefix == IF c.current_usedb # "" THEN <<UseStmt(c.current_usedb)>>
                    ELSE IF db_name # "" THEN <<UseStmt(db_name)>>
                    ELSE <<>>
  IN IF merged
     THEN [c EXCEPT !.split_nodes[k].sql_text = Append(@, st),
                    !.split_nodes[k].ddlflag =
                        IF DdlFlag(st.cmd) = 1 THEN 1 ELSE @]
     ELSE [c EXCEPT !.split_nodes =
             Append(@, [sql_text |-> Append(use_prefix, st),
                        db_name |-> db_name, table_name |-> tbl_name,
                        ddlflag |-> DdlFlag(st.cmd),
                        is_ddl_type |-> IsDdl(st.cmd)])]

\* The database a statement's table resolves to: its qualifier, else the
\* connection's current database; none for a statement without a table.
DbNameOf(st, db) == IF st.tbl = "" THEN "" ELSE IF st.db # "" THEN st.db ELSE db

\* intercept_statement, split mode, as a function of the context and the
\* connection's current database: g is [c |-> context, db |-> thd->db()].
SplitStep(g, st) ==
  IF st.cmd = "CHANGE_DB"
  THEN [c |-> [g.c EXCEPT !.current_usedb = st.db], db |-> st.db]
  ELSE IF st.cmd = "SET_OPTION"
  THEN g
  ELSE [c |-> SplitAdd(g.c, st, DbNameOf(st, g.db), st.tbl), db |-> g.db]

\* intercept_statement, split mode.  bound caps the length of the batch.  A
\* statement naming an unqualified table on a connection without a current
\* database does not parse (no database selected) and never gets here.
InterceptSplit(st, bound) ==
  /\ pc = "idle"
  /\ kpc = "idle"
  /\ ctx.active
  /\ ctx.mode = "SPLIT"
  /\ Len(stream) < bound
  /\ (st.tbl # "" /\ st.db = "") => thd_db # ""
  /\ LET g == SplitStep([c |-> ctx, db |-> thd_db], st)
     IN /\ ctx' = g.c
        /\ thd_db' = g.db
  /\ stream' = Append(stream, st.cmd)
  /\ reply' = [kind |-> "ok", rows |-> <<>>]
  /\ UNCHANGED <<pc, idx, stop_exec, has_error, mysql, kpc, sent, kills,
                 commit_level, failed, alter, stmt_log, session_log,
                 connects,
                 throttle,
                 pauses, sleep_set, admin, others>>
  /\ remote_open' = ctx'.remote_conn

\* intercept_statement, query-tree mode.
InterceptQueryTree(cmd) ==
  /\ pc = "idle"
  /\ kpc = "idle"
  /\ ctx.active
  /\ ctx.mode = "QUERY_TREE"
  /\ Len(stream) < MaxStmts
  /\ IF cmd = "CHANGE_DB"
     THEN /\ ctx' = [ctx EXCEPT !.current_usedb = TheDb]
          /\ thd_db' = TheDb
     ELSE IF cmd = "SET_OPTION"
     THEN UNCHANGED <<ctx, thd_db>>
     ELSE /\ ctx' = [ctx EXCEPT
                       !.tree_nodes = Append(@, [id |-> ctx.next_id,
                                                 sql_text |-> cmd,
                                                 query_tree_json |-> "tree"]),
                       !.next_id = @ + 1]
          /\ UNCHANGED thd_db
  /\ stream' = Append(stream, cmd)
  /\ reply' = [kind |-> "ok", rows |-> <<>>]
  /\ UNCHANGED <<pc, idx, stop_exec, has_error, mysql, kpc, sent, kills,
                 commit_level, failed, alter, stmt_log, session_log,
                 connects,
                 throttle,
                 pauses, sleep_set, admin, others>>
  /\ remote_open' = ctx'.remote_conn


(* ---- result assembler ---- *)

StageName(stage, cmd) ==
  IF stage = STAGE_CHECKED THEN "CHECKED"
  ELSE IF stage = STAGE_EXECUTED
       THEN IF cmd \in {"SET_OPTION", "CHANGE_DB"} THEN "RERUN" ELSE "EXECUTED"
  ELSE IF stage = STAGE_SKIPPED THEN "SKIPPED"
  ELSE "NONE"

\* send_inception_results, the body of its loop: the row of one cache node.
ResultRow(node) ==
  [id |-> node.id,
   stage |-> StageName(node.stage, node.sql_command),
   err_level |-> node.errlevel,
   stage_status |-> node.stage_status,
   err_message |-> IF node.errmsg = <<>> THEN <<"None">> ELSE node.errmsg,
   sql_type |-> node.sql_command]

\* Faulty variant of send_inception_results: statements that failed to parse
\* get no row.
SendParsedResults(c) ==
  LET parsed == SelectSeq(c.cache_nodes, LAMBDA n : n.sql_command # SQLCOM_END)
  IN [i \in 1..Len(parsed) |-> ResultRow(parsed[i])]

\* send_inception_results: one row per cache node, in cache order.
SendInceptionResults(c) ==
  [i \in 1..Len(c.cache_nodes) |-> ResultRow(c.cache_nodes[i])]

\* send_split_results: one row per group, numbered from 1.
SendSplitResults(c) ==
  [i \in 1..Len(c.split_nodes) |->
     [id |-> i, sql_statement |-> c.split_nodes[i].sql_text,
      ddlflag |-> c.split_nodes[i].ddlflag]]

\* send_query_tree_results: one row per tree node.
SendQueryTreeResults(c) ==
  [i \in 1..Len(c.tree_nodes) |->
     [id |-> c.tree_nodes[i].id, sql_text |-> c.tree_nodes[i].sql_text,
      query_tree |-> c.tree_nodes[i].query_tree_json]]

(* ---- session state machine: magic_commit ---- *)

\* do_inception_commit from get_context (under g_ctx_mutex) to the point
\* where the mode decides: an idle session gets an error; execute enters
\* execute_statements; the other modes go on to send their rows.
MagicCommit ==
  /\ pc = "idle"
  /\ kpc = "idle"
  /\ IF ~ctx.active
     THEN /\ reply' = [kind |-> "error", rows |-> <<>>]
          /\ UNCHANGED <<pc, commit_level>>
     ELSE /\ pc' = IF ctx.mode = "EXECUTE" THEN "exec_begin" ELSE "commit_send"
          /\ commit_level' = MaxErrlevel(ctx.cache_nodes)
          /\ reply' = [kind |-> "pending", rows |-> <<>>]
  /\ UNCHANGED <<ctx, idx, stop_exec, has_error, mysql, kpc, sent, kills,
                 stream, failed, thd_db, alter, stmt_log, session_log,
                 connects,
                 throttle,
                 pauses, sleep_set, admin, others>>
  /\ remote_open' = ctx'.remote_conn

\* The session-level record do_inception_commit hands to audit_log_session.
SessionRecord(c) ==
  [mode |-> c.mode,
   statements |-> Len(c.cache_nodes),
   errors |-> Cardinality({i \in DOMAIN c.cache_nodes :
                             c.cache_nodes[i].errlevel >= ERRLEVEL_ERROR})]

\* The rest of do_inception_commit, on the context pointer and without the
\* mutex: the result set of the mode (after execute_statements and the
\* rollback stub in execute mode), the session log in check and execute
\* mode (split and query-tree mode return before it), reset.
CommitFinish ==
  /\ pc = "commit_send"
  /\ reply' = IF ctx.mode = "SPLIT"
              THEN [kind |-> "split", rows |-> SendSplitResults(ctx)]
              ELSE IF ctx.mode = "QUERY_TREE"
              THEN [kind |-> "tree", rows |-> SendQueryTreeResults(ctx)]
              ELSE [kind |-> "audit", rows |-> SendInceptionResults(ctx)]
  /\ session_log' = IF ctx.mode \in {"SPLIT", "QUERY_TREE"}
                    THEN session_log
                    ELSE Append(session_log, SessionRecord(ctx))
  /\ ctx' = Reset(ctx)
  /\ throttle' = ResetThrottle(throttle)
  /\ pc' = "idle"
  /\ has_error' = FALSE
  /\ UNCHANGED <<idx, stop_exec, mysql, kpc, sent, kills, stream,
                 commit_level, failed, thd_db, alter, stmt_log,
                 connects,
                 pauses, sleep_set, admin, others>>
  /\ remote_open' = ctx'.remote_conn


(* ---- execution engine ---- *)

\* Outcomes of the read-only gate of pre_execute_checks: it lets the
\* statement through (gate off, or read_only is OFF), finds the remote
\* read-only, or cannot read the variable.
PreCheckResults == {"pass", "read_only", "query_failed"}

\* Outcomes of execute_one on the remote: success without warnings, success
\* with a remote warning, failure.
ExecResults == {"ok", "warning", "fail"}

\* execute_statements, "already killed" path: every node is marked.
MarkKilled(nodes) ==
  [i \in DOMAIN nodes |->
     [nodes[i] EXCEPT !.stage = STAGE_EXECUTED,
                      !.stage_status = "Killed by user"]]

\* execute_statements, connect failure: the error goes on every node.
MarkConnectFailed(nodes) ==
  [i \in DOMAIN nodes |->
     [AppendError(nodes[i], "Cannot connect to remote")
        EXCEPT !.stage = STAGE_EXECUTED, !.stage_status = "Execute failed"]]

\* Faulty variant of the pre-scan: warnings never block.
PreScanErrorsOnly(c) ==
  \E i \in DOMAIN c.cache_nodes :
     c.cache_nodes[i].errlevel >= ERRLEVEL_ERROR /\ ~c.force

\* The pre-scan of execute_statements: does an audit finding block the batch?
PreScanBlocks(c) ==
  \E i \in DOMAIN c.cache_nodes :
     \/ c.cache_nodes[i].errlevel >= ERRLEVEL_ERROR /\ ~c.force
     \/ c.cache_nodes[i].errlevel >= ERRLEVEL_WARNING /\ ~c.ignore_warnings

\* execute_statements from its entry to the start of the statement loop.
ExecBegin(connOk) ==
  /\ pc = "exec_begin"
  /\ IF ctx.cache_nodes = <<>>
     THEN /\ pc' = "commit_send"
          /\ has_error' = FALSE
          /\ UNCHANGED <<ctx, mysql>>
     ELSE IF ctx.killed
     THEN /\ ctx' = [ctx EXCEPT !.cache_nodes = MarkKilled(@)]
          /\ pc' = "commit_send"
          /\ has_error' = TRUE
          /\ UNCHANGED mysql
     ELSE IF ~connOk
     THEN /\ ctx' = [ctx EXCEPT !.cache_nodes = MarkConnectFailed(@)]
          /\ pc' = "commit_send"
          /\ has_error' = TRUE
          /\ UNCHANGED mysql
     ELSE IF PreScanBlocks(ctx)
     THEN \* the connection is closed, remote_exec_thread_id stays set
          /\ ctx' = [ctx EXCEPT !.remote_exec_thread_id = RemoteTid]
          /\ pc' = "commit_send"
          /\ has_error' = TRUE
          /\ UNCHANGED mysql
     ELSE /\ ctx' = [ctx EXCEPT !.remote_exec_thread_id = RemoteTid]
          /\ mysql' = TRUE
          /\ pc' = "exec_loop"
          /\ has_error' = FALSE
  /\ connects' = IF ctx.cache_nodes # <<>> /\ ~ctx.killed
                 THEN Append(connects, [by |-> "exec", ok |-> connOk])
                 ELSE connects
  /\ idx' = 0
  /\ stop_exec' = FALSE
  /\ UNCHANGED <<reply, kpc, sent, kills, stream, commit_level, failed,
                 thd_db, alter, stmt_log, session_log,
                 throttle,
                 pauses, sleep_set, admin, others>>
  /\ remote_open' = ctx'.remote_conn

\* Faulty variant of the read-only gate: the node is marked, without error.
PreCheckFailedNoError(node, res) ==
  [node EXCEPT !.stage = STAGE_CHECKED, !.stage_status = "Pre-check failed"]

\* The replicas execute_statements holds a connection to: those of
\* slave-hosts it could connect to, when the delay cap is enabled.
SlaveConns(t) == IF t.delay_cap THEN t.slave_hosts \cap t.reachable ELSE {}

\* pre_execute_checks: is wait_for_remote_ready called?
ThrottleOn(t) == t.threads_cap \/ (SlaveConns(t) # {} /\ t.delay_cap)

\* pre_execute_checks, read-only gate: the node when the gate blocks it.
PreCheckFailed(node, res) ==
  [AppendError(node, IF res = "read_only" THEN "Remote is read-only"
                     ELSE "Failed to query remote read_only status")
     EXCEPT !.stage = STAGE_CHECKED, !.stage_status = "Pre-check failed"]

\* One pass through the head of the statement loop: the kill check, the
\* skip after an error, the pre-execute checks, then the statement is sent.
ExecNext(pre) ==
  /\ pc = "exec_loop"
  /\ idx < Len(ctx.cache_nodes)
  /\ idx' = idx + 1
  /\ LET i == idx + 1
         node == ctx.cache_nodes[i]
     IN IF ctx.killed
        THEN /\ ctx' = [ctx EXCEPT !.cache_nodes[i] =
                          [node EXCEPT !.stage = STAGE_EXECUTED,
                                       !.stage_status = "Killed by user"]]
             /\ UNCHANGED <<pc, stop_exec, has_error, sent>>
        ELSE IF stop_exec
        THEN /\ ctx' = [ctx EXCEPT !.cache_nodes[i] =
                          AppendError([node EXCEPT
                                         !.stage = STAGE_SKIPPED,
                                         !.stage_status = "Skipped due to prior error"],
                                      "Skipped: previous statement had errors.")]
             /\ UNCHANGED <<pc, stop_exec, has_error, sent>>
        ELSE IF pre # "pass"
        THEN /\ ctx' = [ctx EXCEPT !.cache_nodes[i] = PreCheckFailed(node, pre)]
             /\ has_error' = TRUE
             /\ stop_exec' = TRUE
             /\ UNCHANGED <<pc, sent>>
        ELSE IF ThrottleOn(throttle)
        THEN /\ pc' = "wait_ready"
             /\ UNCHANGED <<ctx, stop_exec, has_error, sent>>
        ELSE /\ sent' = Append(sent, node.id)
             /\ pc' = "inflight"
             /\ UNCHANGED <<ctx, stop_exec, has_error>>
  /\ UNCHANGED <<mysql, reply, kpc, kills, stream, commit_level, failed,
                 thd_db, alter, stmt_log, session_log,
                 connects,
                 throttle,
                 pauses, sleep_set, admin, others>>
  /\ remote_open' = ctx'.remote_conn

\* The cap on Threads_running and on Seconds_Behind_Master when enabled.
ThreadsCap == 1
DelayCap == 1

\* Largest Threads_running and Seconds_Behind_Master a poll reports.
MaxRunning == 3
MaxDelay == 2

\* What one poll of wait_for_remote_ready gets back: for Threads_running
\* whether the query ran and the value; for each replica whether SHOW SLAVE
\* STATUS failed (or gave no row), gave NULL, or gave a value.
Polls ==
  [threads : [ok : {FALSE}, running : {0}]
               \cup [ok : {TRUE}, running : 0..MaxRunning],
   delay : [Slaves -> [res : {"failed", "null"}, seconds : {0}]
                        \cup [res : {"value"}, seconds : 0..MaxDelay]]]

\* wait_for_remote_ready, one round: need_wait after the Threads_running
\* check and, when that passed, the replication-delay check.
NeedWait(t, poll) ==
  LET over == /\ t.threads_cap /\ poll.threads.ok
              /\ poll.threads.running > ThreadsCap
      late == /\ t.delay_cap
              /\ \E h \in SlaveConns(t) :
                    \/ poll.delay[h].res = "null"
                    \/ poll.delay[h].res = "value"
                         /\ poll.delay[h].seconds > DelayCap
  IN over \/ late

\* The values one round stores in the context.
Polled(t, poll) ==
  LET over == /\ t.threads_cap /\ poll.threads.ok
              /\ poll.threads.running > ThreadsCap
      vals == IF ~over /\ t.delay_cap
              THEN {poll.delay[h].seconds :
                      h \in {g \in SlaveConns(t) : poll.delay[g].res = "value"}}
              ELSE {}
  IN [t EXCEPT !.last_threads_running =
                   IF t.threads_cap /\ poll.threads.ok
                   THEN poll.threads.running ELSE @,
               !.last_repl_delay =
                   IF vals # {}
                   THEN CHOOSE d \in vals : \A e \in vals : e <= d ELSE @]

\* wait_for_remote_ready, one round of its loop, and on leaving the loop
\* the dispatch of the statement.  The loop does not read killed.
WaitForRemoteReady(poll) ==
  /\ pc = "wait_ready"
  /\ throttle' = Polled(throttle, poll)
  /\ IF NeedWait(throttle, poll)
     THEN UNCHANGED <<pc, sent>>
     ELSE /\ sent' = Append(sent, ctx.cache_nodes[idx].id)
          /\ pc' = "inflight"
  /\ UNCHANGED <<ctx, idx, stop_exec, has_error, mysql, reply, kpc, kills,
                 stream, commit_level, failed, thd_db, alter, stmt_log,
                 session_log, connects,
                 pauses, sleep_set, admin, others>>
  /\ remote_open' = ctx'.remote_conn

\* execute_one: the node after the remote answered.
ExecuteOne(node, res) ==
  IF res = "fail"
  THEN [AppendError(node, "Execute failed")
          EXCEPT !.stage = STAGE_EXECUTED, !.stage_status = "Execute failed"]
  ELSE LET n1 == [node EXCEPT !.stage = STAGE_EXECUTED,
                              !.stage_status = "Execute completed"]
       IN IF res = "warning" THEN AppendWarning(n1, "Remote Warning") ELSE n1

\* Faulty variant of the pause: taken also after the statement that stopped
\* the execution.
SleepValWhenStopped(c, stop) == c.sleep_ms

\* The pause at the end of the loop body: sleep_ms is read once; no pause
\* when it is 0 or when stop_exec has been set.
SleepVal(c, stop) == IF c.sleep_ms > 0 /\ ~stop THEN c.sleep_ms ELSE 0

\* The rest of the loop body once the remote answered the statement sent,
\* with the statement-level line of the audit log, then the pause.
ExecComplete(res) ==
  /\ pc = "inflight"
  /\ ctx' = [ctx EXCEPT !.cache_nodes[idx] = ExecuteOne(@, res)]
  /\ IF res = "fail"
     THEN /\ has_error' = TRUE
          /\ stop_exec' = IF ~ctx.force THEN TRUE ELSE stop_exec
          /\ failed' = IF failed = 0 THEN ctx.cache_nodes[idx].id ELSE failed
     ELSE UNCHANGED <<has_error, stop_exec, failed>>
  /\ stmt_log' = Append(stmt_log, ctx.cache_nodes[idx].id)
  /\ pauses' = Append(pauses, [id |-> ctx.cache_nodes[idx].id,
                                ms |-> SleepVal(ctx, stop_exec')])
  /\ pc' = "exec_loop"
  /\ UNCHANGED <<idx, mysql, reply, kpc, sent, kills, stream, commit_level,
                 thd_db, alter, session_log,
                 connects,
                 throttle,
                 sleep_set, admin, others>>
  /\ remote_open' = ctx'.remote_conn

\* execute_statements after the loop: connections closed, thread id cleared.
ExecEnd ==
  /\ pc = "exec_loop"
  /\ idx = Len(ctx.cache_nodes)
  /\ ctx' = [ctx EXCEPT !.remote_exec_thread_id = 0]
  /\ mysql' = FALSE
  /\ pc' = "commit_send"
  /\ idx' = 0
  /\ stop_exec' = FALSE
  /\ UNCHANGED <<has_error, reply, kpc, sent, kills, stream, commit_level,
                 failed, thd_db, alter, stmt_log, session_log,
                 connects,
                 throttle,
                 pauses, sleep_set, admin, others>>
  /\ remote_open' = ctx'.remote_conn

(* ---- admin session: inception kill <tid> [force] ---- *)

\* kill_session, the lookup under g_ctx_mutex: is the target session active?
\* The mutex is held until the load of the remote thread id (kpc # "idle").
\* The owner thread takes it only inside get_context and writes its context
\* without it, so the owner's steps past get_context can fall between this
\* read of active and the store.
KillFind ==
  /\ kpc = "idle"
  /\ IF ctx.active
     THEN kpc' = "found"
     ELSE \* not found: the command is answered with an error
          UNCHANGED kpc
  /\ UNCHANGED <<ctx, pc, idx, stop_exec, has_error, mysql, reply, sent,
                 kills, stream, commit_level, failed, thd_db, alter, stmt_log,
                 session_log,
                 connects,
                 throttle,
                 pauses, sleep_set, admin, others>>
  /\ remote_open' = ctx'.remote_conn

\* kill_session, still under the mutex: the store of killed.
KillStore ==
  /\ kpc = "found"
  /\ ctx' = [ctx EXCEPT !.killed = TRUE]
  /\ kpc' = "stored"
  /\ UNCHANGED <<pc, idx, stop_exec, has_error, mysql, reply, sent, kills,
                 stream, commit_level, failed, thd_db, alter, stmt_log,
                 session_log,
                 connects,
                 throttle,
                 pauses, sleep_set, admin, others>>
  /\ remote_open' = ctx'.remote_conn

\* kill_session, the rest: with force the remote thread id is loaded from
\* the context and, when it is set, that thread is killed on the target.
\* The force argument is not looked at before this point.
KillRemote(force) ==
  /\ kpc = "stored"
  /\ kills' = IF force /\ ctx.remote_exec_thread_id > 0
              THEN kills \cup {ctx.remote_exec_thread_id}
              ELSE kills
  /\ kpc' = "idle"
  /\ UNCHANGED <<ctx, pc, idx, stop_exec, has_error, mysql, reply, sent,
                 stream, commit_level, failed, thd_db, alter, stmt_log,
                 session_log,
                 connects,
                 throttle,
                 pauses, sleep_set, admin, others>>
  /\ remote_open' = ctx'.remote_conn

\* handle_inception_command for `inception kill <tid>` when kill_session
\* does not find the owner's session active under that id: the other
\* connection's context is the target if it is active under tid, else the
\* command is answered with an error.
KillSessionElsewhere(tid) ==
  /\ kpc = "idle"
  /\ ~(tid = OwnerTid /\ ctx.active)
  /\ IF tid = OtherTid /\ others.active
     THEN /\ others' = [others EXCEPT !.killed = TRUE]
          /\ admin' = [op |-> "kill", ms |-> 0, result |-> "ok",
                       rows |-> <<>>]
     ELSE /\ admin' = [op |-> "kill", ms |-> 0,
                       result |-> "error", rows |-> <<>>]
          /\ UNCHANGED others
  /\ UNCHANGED <<ctx, pc, idx, stop_exec, has_error, mysql, reply, kpc, sent,
                 kills, stream, commit_level, failed, thd_db, alter, stmt_log,
                 session_log, connects, throttle, pauses, sleep_set>>
  /\ remote_open' = ctx'.remote_conn

(* ---- admin session: inception set sleep <tid> <ms> ---- *)

\* set_sleep_by_thread_id, the lookup under g_ctx_mutex.  On the owner's
\* session the mutex is held until the store (kpc = "sleep_found"); the
\* owner writes its context without the mutex, so its steps past
\* get_context can fall between this read of active and the store.
SetSleepFind(tid, ms) ==
  /\ kpc = "idle"
  /\ IF tid = OwnerTid /\ ctx.active
     THEN /\ kpc' = "sleep_found"
          /\ admin' = [op |-> "set_sleep", ms |-> ms,
                       result |-> "pending", rows |-> <<>>]
          /\ UNCHANGED others
     ELSE IF tid = OtherTid /\ others.active
     THEN /\ others' = [others EXCEPT !.sleep_ms = ms]
          /\ admin' = [op |-> "set_sleep", ms |-> 0,
                       result |-> "ok", rows |-> <<>>]
          /\ UNCHANGED kpc
     ELSE /\ admin' = [op |-> "set_sleep", ms |-> 0,
                       result |-> "error", rows |-> <<>>]
          /\ UNCHANGED <<kpc, others>>
  /\ UNCHANGED <<ctx, pc, idx, stop_exec, has_error, mysql, reply, sent,
                 kills, stream, commit_level, failed, thd_db, alter, stmt_log,
                 session_log, connects, throttle, pauses, sleep_set>>
  /\ remote_open' = ctx'.remote_conn

\* set_sleep_by_thread_id, still under the mutex: the store of sleep_ms.
SetSleepStore ==
  /\ kpc = "sleep_found"
  /\ ctx' = [ctx EXCEPT !.sleep_ms = admin.ms]
  /\ sleep_set' = admin.ms
  /\ admin' = [admin EXCEPT !.ms = 0, !.result = "ok"]
  /\ kpc' = "idle"
  /\ UNCHANGED <<pc, idx, stop_exec, has_error, mysql, reply, sent, kills,
                 stream, commit_level, failed, thd_db, alter, stmt_log,
                 session_log, connects, throttle, pauses, others>>
  /\ remote_open' = ctx'.remote_conn

(* ---- admin session: inception show sessions ---- *)

RECURSIVE ExecutedSql(_)
\* The cache nodes whose stage is STAGE_EXECUTED or beyond.
ExecutedSql(nodes) ==
  IF nodes = <<>> THEN 0
  ELSE (IF nodes[1].stage >= STAGE_EXECUTED THEN 1 ELSE 0)
       + ExecutedSql(Tail(nodes))

\* The SessionInfo of the owner's context.
SessionInfo(c, t) ==
  [thread_id |-> OwnerTid, mode |-> c.mode, sleep_ms |-> c.sleep_ms,
   total_sql |-> Len(c.cache_nodes),
   executed_sql |-> ExecutedSql(c.cache_nodes),
   threads_running |-> t.last_threads_running,
   repl_delay |-> t.last_repl_delay]

\* get_active_sessions takes g_ctx_mutex.
ShowSessionsBegin ==
  /\ kpc = "idle"
  /\ kpc' = "show"
  /\ admin' = [op |-> "show", ms |-> 0, result |-> "pending",
               rows |-> <<>>]
  /\ UNCHANGED <<ctx, pc, idx, stop_exec, has_error, mysql, reply, sent,
                 kills, stream, commit_level, failed, thd_db, alter, stmt_log,
                 session_log, connects, throttle, pauses, sleep_set, others>>
  /\ remote_open' = ctx'.remote_conn

\* get_active_sessions, under the mutex: one SessionInfo for every active
\* context, read from the context and its statement cache as they are.
ShowSessions ==
  /\ kpc = "show"
  /\ admin' = [admin EXCEPT
       !.result = "ok",
       !.rows = (IF ctx.active THEN <<SessionInfo(ctx, throttle)>> ELSE <<>>)
                \o (IF others.active
                    THEN <<[thread_id |-> OtherTid, mode |-> "CHECK",
                            sleep_ms |-> others.sleep_ms, total_sql |-> 0,
                            executed_sql |-> 0, threads_running |-> 0,
                            repl_delay |-> -1]>>
                    ELSE <<>>)]
  /\ kpc' = "idle"
  /\ UNCHANGED <<ctx, pc, idx, stop_exec, has_error, mysql, reply, sent,
                 kills, stream, commit_level, failed, thd_db, alter, stmt_log,
                 session_log, connects, throttle, pauses, sleep_set, others>>
  /\ remote_open' = ctx'.remote_conn

(* ---- connection close ---- *)

\* destroy_context, called when the connection's THD is destroyed: under
\* g_ctx_mutex the entry is erased from g_ctx_map.  InceptionContext has no
\* destructor, so its members are dropped as they are: nothing calls
\* mysql_close on remote_conn.  A later lookup finds no session.
DestroyContext ==
  /\ pc = "idle"
  /\ kpc = "idle"
  /\ pc' = "closed"
  /\ ctx' = Reset(ctx)
  /\ throttle' = ResetThrottle(throttle)
  /\ UNCHANGED <<idx, stop_exec, has_error, mysql, reply, kpc, sent, kills,
                 stream, commit_level, failed, thd_db, alter, stmt_log,
                 session_log, remote_open,
                 connects,
                 pauses, sleep_set, admin, others>>

(* ---- specification ---- *)

Next ==
  \/ MagicStart
  \/ \E o \in StartOpts, connOk \in BOOLEAN : SetupInceptionSession(o, connOk)
  \/ HandleParseError
  \/ \E in \in AuditInputs, connOk \in BOOLEAN : InterceptAudit(in, connOk)
  \/ \E st \in SplitInputs : InterceptSplit(st, MaxStmts)
  \/ \E cmd \in GroupCmds : InterceptQueryTree(cmd)
  \/ MagicCommit
  \/ \E connOk \in BOOLEAN : ExecBegin(connOk)
  \/ \E pre \in PreCheckResults : ExecNext(pre)
  \/ \E res \in ExecResults : ExecComplete(res)
  \/ ExecEnd
  \/ CommitFinish
  \/ KillFind
  \/ KillStore
  \/ \E force \in BOOLEAN : KillRemote(force)
  \/ DestroyContext

Spec == Init /\ [][Next]_vars

(* ---- specification of the split grouper ---- *)

\* Largest number of statements in a split batch of SpecSplit.
MaxSplitStmts == 3

\* Statements of the split batches of SpecSplit: qualified and unqualified
\* DML and DDL on two tables of two databases, statements without a table
\* (COMMIT), USE and SET.
SplitInputsFull ==
  SplitStmts({"INSERT", "ALTER_TABLE"}, {"", "d1", "d2"}, {"t1", "t2"})
  \cup {[cmd |-> "COMMIT", db |-> "", tbl |-> ""]}

\* A split session right after its magic_start, on a connection opened
\* without a default database.
SplitStart ==
  ParseInceptionStart(Reset(<<>>),
                      [valid |-> TRUE, mode |-> "SPLIT", force |-> FALSE,
                       ignore_warnings |-> FALSE])

InitSplit ==
  /\ \E connOk \in BOOLEAN : ctx = GetRemoteConn(SplitStart, connOk)
  /\ pc = "idle"
  /\ idx = 0
  /\ stop_exec = FALSE
  /\ has_error = FALSE
  /\ mysql = FALSE
  /\ reply = [kind |-> "ok", rows |-> <<>>]
  /\ kpc = "idle"
  /\ sent = <<>>
  /\ kills = {}
  /\ stream = <<>>
  /\ commit_level = 0
  /\ failed = 0
  /\ thd_db = ""
  /\ alter = NoAlter
  /\ stmt_log = <<>>
  /\ session_log = <<>>
  /\ remote_open = ctx.remote_conn
  /\ connects = <<[by |-> "start", ok |-> ctx.remote_conn]>>
  /\ throttle = NoThrottle
  /\ pauses = <<>>
  /\ sleep_set = 0
  /\ admin = NoAdmin
  /\ others = NoOther

NextSplit ==
  \/ \E st \in SplitInputsFull : InterceptSplit(st, MaxSplitStmts)
  \/ MagicCommit
  \/ CommitFinish

SpecSplit == InitSplit /\ [][NextSplit]_vars

(* ---- specification of the split grouper's ddlflag ---- *)

\* Statements of the split batches of SpecDdlFlag: DML and the three kinds
\* of table DDL on two tables of one database, USE and SET.
DdlFlagInputs ==
  SplitStmts({"INSERT", "CREATE_TABLE", "ALTER_TABLE", "DROP_TABLE"},
             {TheDb}, {"t1", "t2"})

NextDdlFlag ==
  \/ \E st \in DdlFlagInputs : InterceptSplit(st, MaxSplitStmts)
  \/ MagicCommit
  \/ CommitFinish

SpecDdlFlag == InitSplit /\ [][NextDdlFlag]_vars

\* The statements of a grouped output, group by group, in order.
RECURSIVE Flatten(_)
Flatten(groups) ==
  IF groups = <<>> THEN <<>>
  ELSE Head(groups).sql_text \o Flatten(Tail(groups))

\* intercept_statement, split mode, over a sequence of statements.
RECURSIVE FeedAll(_, _)
FeedAll(g, sts) ==
  IF sts = <<>> THEN g ELSE FeedAll(SplitStep(g, Head(sts)), Tail(sts))

\* The groups a fresh split session builds from the statements of a
\* grouped output.
Regroup(groups) ==
  FeedAll([c |-> SplitStart, db |-> ""], Flatten(groups)).c.split_nodes

\* What a result row shows of a group: its text and its ddlflag.
Shown(groups) ==
  [i \in 1..Len(groups) |->
     [sql_text |-> groups[i].sql_text, ddlflag |-> groups[i].ddlflag]]

(* ---- specification of the audit's remote lookups ---- *)

\* Statements of the batches of SpecAudit: CREATE TABLE and ALTER TABLE on
\* d1.t1 with every outcome of the existence lookup.
AuditInputsFull ==
  [cmd : {"CREATE_TABLE", "ALTER_TABLE"}, lookup : {"found", "absent", "failed"},
   rules : {<<>>, <<0>>, <<1>>, <<2>>}, merge_knob : {0, 1}, cols : {{}},
   drops : {{}}, remote_cols : {{}}, explain : {"few"}, rows : {"few"},
   db : {TheDb}]

\* A check session right after its magic_start.
AuditStart ==
  ParseInceptionStart(Reset(<<>>),
                      [valid |-> TRUE, mode |-> "CHECK", force |-> FALSE,
                       ignore_warnings |-> FALSE])

InitAudit ==
  /\ \E connOk \in BOOLEAN : ctx = GetRemoteConn(AuditStart, connOk)
  /\ pc = "idle"
  /\ idx = 0
  /\ stop_exec = FALSE
  /\ has_error = FALSE
  /\ mysql = FALSE
  /\ reply = [kind |-> "ok", rows |-> <<>>]
  /\ kpc = "idle"
  /\ sent = <<>>
  /\ kills = {}
  /\ stream = <<>>
  /\ commit_level = 0
  /\ failed = 0
  /\ thd_db = TheDb
  /\ alter = NoAlter
  /\ stmt_log = <<>>
  /\ session_log = <<>>
  /\ remote_open = ctx.remote_conn
  /\ connects = <<[by |-> "start", ok |-> ctx.remote_conn]>>
  /\ throttle = NoThrottle
  /\ pauses = <<>>
  /\ sleep_set = 0
  /\ admin = NoAdmin
  /\ others = NoOther

NextAudit ==
  \/ \E in \in AuditInputsFull, connOk \in BOOLEAN : InterceptAudit(in, connOk)
  \/ MagicCommit
  \/ CommitFinish

SpecAudit == InitAudit /\ [][NextAudit]_vars

(* ---- specification of the batch schema ---- *)

\* Largest number of statements in a batch of SpecSchema.
MaxSchemaStmts == 3

\* The column names statements are written with.
ColNames == {"a", "A", "b"}

\* A statement of the batch-schema specification; the remote has the table
\* with column a.
SchemaStmt(cmds, cols, drops, explain) ==
  [cmd : cmds, lookup : {"found"}, rules : {<<>>}, merge_knob : {0},
   cols : cols, drops : drops, remote_cols : {{"a"}},
   explain : explain, rows : {"few"}, db : {TheDb}]

\* The statements submitted: CREATE TABLE with one or two columns, ALTER
\* TABLE adding or dropping one column, DROP TABLE, TRUNCATE, DML naming a
\* column or none, CREATE and DROP DATABASE.
SchemaInputs ==
  SchemaStmt({"CREATE_TABLE"}, {{"a"}, {"A", "b"}}, {{}}, {"few"})
  \cup SchemaStmt({"ALTER_TABLE"}, {{col} : col \in ColNames}, {{}}, {"few"})
  \cup SchemaStmt({"ALTER_TABLE"}, {{}}, {{col} : col \in ColNames}, {"few"})
  \cup SchemaStmt({"DROP_TABLE", "TRUNCATE", "CREATE_DB", "DROP_DB"},
                  {{}}, {{}}, {"few"})
  \cup SchemaStmt({"INSERT"}, {{}, {"b"}}, {{}}, {"few"})
  \cup SchemaStmt({"UPDATE", "DELETE"}, {{}}, {{}}, {"few", "failed"})

NextSchema ==
  \/ \E in \in SchemaInputs, connOk \in BOOLEAN :
       InterceptAuditWithin(in, connOk, MaxSchemaStmts)
  \/ MagicCommit
  \/ CommitFinish

SpecSchema == InitAudit /\ [][NextSchema]_vars

(* ---- specification of the execution throttle ---- *)

\* An execute session right after its magic_start.
ExecStart ==
  ParseInceptionStart(Reset(<<>>),
                      [valid |-> TRUE, mode |-> "EXECUTE", force |-> FALSE,
                       ignore_warnings |-> FALSE])

\* The session after k statements that pass the audit without a finding.
RECURSIVE AuditedBatch(_, _)
AuditedBatch(c, k) ==
  IF k = 0 THEN c
  ELSE AuditStatement(AddSql(AuditedBatch(c, k - 1), "INSERT"),
                      [cmd |-> "INSERT", lookup |-> "found", rules |-> <<>>,
                       merge_knob |-> 0, cols |-> {}, drops |-> {},
                       remote_cols |-> {}, explain |-> "few",
                       rows |-> "few", db |-> TheDb], TRUE)

\* The settings of the two caps, the slave-hosts of the session and the
\* replicas that accept a connection.
Throttles ==
  [threads_cap : BOOLEAN, delay_cap : BOOLEAN, slave_hosts : SUBSET Slaves,
   reachable : SUBSET Slaves, last_threads_running : {0},
   last_repl_delay : {-1}]

InitThrottle ==
  /\ \E k \in 1..MaxStmts :
       /\ ctx = AuditedBatch(GetRemoteConn(ExecStart, TRUE), k)
       /\ stream = [i \in 1..k |-> "INSERT"]
  /\ throttle \in Throttles
  /\ pc = "idle"
  /\ idx = 0
  /\ stop_exec = FALSE
  /\ has_error = FALSE
  /\ mysql = FALSE
  /\ reply = [kind |-> "ok", rows |-> <<>>]
  /\ kpc = "idle"
  /\ sent = <<>>
  /\ kills = {}
  /\ commit_level = 0
  /\ failed = 0
  /\ thd_db = TheDb
  /\ alter = NoAlter
  /\ stmt_log = <<>>
  /\ session_log = <<>>
  /\ remote_open = TRUE
  /\ connects = <<[by |-> "start", ok |-> TRUE]>>

\* The steps of execute_statements.
  /\ pauses = <<>>
  /\ sleep_set = 0
  /\ admin = NoAdmin
  /\ others = NoOther
EngineStep ==
  \/ \E connOk \in BOOLEAN : ExecBegin(connOk)
  \/ \E pre \in PreCheckResults : ExecNext(pre)
  \/ \E poll \in Polls : WaitForRemoteReady(poll)
  \/ \E res \in ExecResults : ExecComplete(res)
  \/ ExecEnd

NextThrottle ==
  \/ MagicCommit
  \/ EngineStep
  \/ CommitFinish
  \/ KillFind
  \/ KillStore
  \/ \E force \in BOOLEAN : KillRemote(force)

SpecThrottle == InitThrottle /\ [][NextThrottle]_vars

\* The owner thread keeps running: a step of the engine that stays possible
\* is eventually taken.  Nothing is assumed of what the polls report.
SpecThrottleFair == SpecThrottle /\ WF_vars(EngineStep)

(* ---- specification of the admin commands ---- *)

\* The values `inception set sleep` and the sleep option are given.
MaxSleep == 1

\* An execute session right after a magic_start with enable-force and sleep.
ExecStartWith(force, ms) ==
  [ParseInceptionStart(Reset(<<>>),
                       [valid |-> TRUE, mode |-> "EXECUTE", force |-> force,
                        ignore_warnings |-> FALSE])
     EXCEPT !.sleep_ms = ms]

InitAdmin ==
  /\ \E k \in 1..MaxStmts, force \in BOOLEAN, ms \in 0..MaxSleep :
       /\ ctx = AuditedBatch(GetRemoteConn(ExecStartWith(force, ms), TRUE), k)
       /\ stream = [i \in 1..k |-> "INSERT"]
       /\ sleep_set = ms
  /\ others \in [active : BOOLEAN, killed : {FALSE}, sleep_ms : {0}]
  /\ throttle = NoThrottle
  /\ pc = "idle"
  /\ idx = 0
  /\ stop_exec = FALSE
  /\ has_error = FALSE
  /\ mysql = FALSE
  /\ reply = [kind |-> "ok", rows |-> <<>>]
  /\ kpc = "idle"
  /\ sent = <<>>
  /\ kills = {}
  /\ commit_level = 0
  /\ failed = 0
  /\ thd_db = TheDb
  /\ alter = NoAlter
  /\ stmt_log = <<>>
  /\ session_log = <<>>
  /\ remote_open = TRUE
  /\ connects = <<[by |-> "start", ok |-> TRUE]>>
  /\ pauses = <<>>
  /\ admin = NoAdmin

(* ---- specification of the pause between statements ---- *)

InitSleep == InitAdmin /\ ~others.active

NextSleep ==
  \/ MagicCommit
  \/ \E connOk \in BOOLEAN : ExecBegin(connOk)
  \/ \E pre \in PreCheckResults : ExecNext(pre)
  \/ \E res \in ExecResults : ExecComplete(res)
  \/ ExecEnd
  \/ CommitFinish
  \/ \E ms \in 0..MaxSleep : SetSleepFind(OwnerTid, ms)
  \/ SetSleepStore

SpecSleep == InitSleep /\ [][NextSleep]_vars

\* The connection ids an admin command can name: the owner's, the other
\* connection's, and one no connection has.
Tids == {OwnerTid, OtherTid, 3}

NextAdmin ==
  \/ MagicCommit
  \/ \E connOk \in BOOLEAN : ExecBegin(connOk)
  \/ \E pre \in PreCheckResults : ExecNext(pre)
  \/ \E res \in ExecResults : ExecComplete(res)
  \/ ExecEnd
  \/ CommitFinish
  \/ KillFind
  \/ KillStore
  \/ \E force \in BOOLEAN : KillRemote(force)
  \/ \E tid \in Tids : KillSessionElsewhere(tid)
  \/ \E tid \in Tids, ms \in 0..MaxSleep : SetSleepFind(tid, ms)
  \/ SetSleepStore
  \/ ShowSessionsBegin
  \/ ShowSessions

SpecAdmin == InitAdmin /\ [][NextAdmin]_vars

(* ---- specification of the ALTER TABLE algorithm prediction ---- *)

\* The operation flags of Alter_info that predict_alter_algorithm tests.
AlterFlags ==
  {"ALTER_ADD_COLUMN", "ALTER_DROP_COLUMN", "ALTER_CHANGE_COLUMN",
   "ALTER_CHANGE_COLUMN_DEFAULT", "ALTER_COLUMN_ORDER", "ALTER_ADD_INDEX",
   "ALTER_DROP_INDEX", "ALTER_RENAME_INDEX", "ALTER_INDEX_VISIBILITY",
   "ALTER_RENAME", "ALTER_ORDER", "ALTER_OPTIONS", "ALTER_KEYS_ONOFF",
   "ALTER_RECREATE", "ALTER_ADD_PARTITION", "ALTER_DROP_PARTITION",
   "ALTER_COALESCE_PARTITION", "ALTER_REORGANIZE_PARTITION",
   "ALTER_EXCHANGE_PARTITION", "ALTER_TRUNCATE_PARTITION",
   "ALTER_REMOVE_PARTITIONING", "ALTER_DISCARD_TABLESPACE",
   "ALTER_IMPORT_TABLESPACE", "ALTER_COLUMN_VISIBILITY"}

\* Major versions of the target: 5.x and 8.x.
Majors == {5, 8}

\* Largest number of operations in one ALTER TABLE of SpecAlter.
MaxAlterOps == 3

\* Faulty variant of raise: the level of the last operation tested wins.
RaiseAssign(worst, level) == level

\* The raise lambda: worst never goes down.
Raise(worst, level) == IF level > worst THEN level ELSE worst

\* The tests of predict_alter_algorithm in the order of the code: the flags
\* a test masks and the level it raises to (0 INSTANT, 1 INPLACE, 2 COPY).
AlterChecks(used_engine, is_80) ==
  << [mask |-> {"ALTER_ADD_COLUMN"}, level |-> IF is_80 THEN 0 ELSE 1],
     [mask |-> {"ALTER_DROP_COLUMN"}, level |-> 1],
     [mask |-> {"ALTER_CHANGE_COLUMN"}, level |-> 2],
     [mask |-> {"ALTER_CHANGE_COLUMN_DEFAULT"}, level |-> 0],
     [mask |-> {"ALTER_COLUMN_ORDER"}, level |-> 1],
     [mask |-> {"ALTER_ADD_INDEX"}, level |-> 1],
     [mask |-> {"ALTER_DROP_INDEX"}, level |-> 1],
     [mask |-> {"ALTER_RENAME_INDEX"}, level |-> 1],
     [mask |-> {"ALTER_INDEX_VISIBILITY"}, level |-> 1],
     [mask |-> {"ALTER_RENAME"}, level |-> 0],
     [mask |-> {"ALTER_ORDER"}, level |-> 2],
     [mask |-> {"ALTER_OPTIONS"}, level |-> IF used_engine THEN 2 ELSE 0],
     [mask |-> {"ALTER_KEYS_ONOFF"}, level |-> 1],
     [mask |-> {"ALTER_RECREATE"}, level |-> 2],
     [mask |-> {"ALTER_ADD_PARTITION", "ALTER_DROP_PARTITION",
                "ALTER_COALESCE_PARTITION", "ALTER_REORGANIZE_PARTITION",
                "ALTER_EXCHANGE_PARTITION", "ALTER_TRUNCATE_PARTITION",
                "ALTER_REMOVE_PARTITIONING"}, level |-> 2],
     [mask |-> {"ALTER_DISCARD_TABLESPACE", "ALTER_IMPORT_TABLESPACE"},
      level |-> 1],
     [mask |-> {"ALTER_COLUMN_VISIBILITY"}, level |-> 0] >>

\* worst after the tests from the i-th on.
RECURSIVE WorstFrom(_, _, _, _)
WorstFrom(checks, i, flags, worst) ==
  IF i > Len(checks) THEN worst
  ELSE WorstFrom(checks, i + 1, flags,
                 IF checks[i].mask \cap flags # {}
                 THEN Raise(worst, checks[i].level)
                 ELSE worst)

AlgorithmName(worst) ==
  IF worst = 0 THEN "INSTANT" ELSE IF worst = 1 THEN "INPLACE" ELSE "COPY"

\* predict_alter_algorithm.
PredictAlterAlgorithm(flags, used_engine, major) ==
  AlgorithmName(WorstFrom(AlterChecks(used_engine, major >= 8), 1, flags, 0))

InitAlter ==
  /\ ctx = Reset(<<>>)
  /\ pc = "idle"
  /\ idx = 0
  /\ stop_exec = FALSE
  /\ has_error = FALSE
  /\ mysql = FALSE
  /\ reply = [kind |-> "none", rows |-> <<>>]
  /\ kpc = "idle"
  /\ sent = <<>>
  /\ kills = {}
  /\ stream = <<>>
  /\ commit_level = 0
  /\ failed = 0
  /\ thd_db = TheDb
  /\ alter \in [flags : {{}}, used_engine : BOOLEAN, major : Majors,
                ddl_algorithm : {""}]
  /\ stmt_log = <<>>
  /\ session_log = <<>>
  /\ remote_open = FALSE
  /\ connects = <<>>
  /\ throttle = NoThrottle

\* The parser sets one more operation flag of the ALTER TABLE.
  /\ pauses = <<>>
  /\ sleep_set = 0
  /\ admin = NoAdmin
  /\ others = NoOther
AddAlterOperation(op) ==
  /\ alter.ddl_algorithm = ""
  /\ op \notin alter.flags
  /\ Cardinality(alter.flags) < MaxAlterOps
  /\ alter' = [alter EXCEPT !.flags = @ \cup {op}]
  /\ UNCHANGED <<ctx, pc, idx, stop_exec, has_error, mysql, reply, kpc, sent,
                 kills, stream, commit_level, failed, thd_db, stmt_log,
                 session_log, remote_open,
                 connects,
                 throttle,
                 pauses, sleep_set, admin, others>>

\* audit_alter_table stores the prediction in the node.
PredictAlter ==
  /\ alter.ddl_algorithm = ""
  /\ alter' = [alter EXCEPT !.ddl_algorithm =
                 PredictAlterAlgorithm(alter.flags, alter.used_engine,
                                       alter.major)]
  /\ UNCHANGED <<ctx, pc, idx, stop_exec, has_error, mysql, reply, kpc, sent,
                 kills, stream, commit_level, failed, thd_db, stmt_log,
                 session_log, remote_open,
                 connects,
                 throttle,
                 pauses, sleep_set, admin, others>>

NextAlter ==
  \/ \E op \in AlterFlags : AddAlterOperation(op)
  \/ PredictAlter

SpecAlter == InitAlter /\ [][NextAlter]_vars

(* ---- properties ---- *)

\* The owner's latest request was a magic_commit on an active session and it
\* has been answered with a result set.
CommitAnswered == pc = "idle" /\ reply.kind \in {"audit", "split", "tree"}

\* C1: in execute mode with force=false, when some statement of the batch
\* has err_level=error at magic_commit, no statement of the batch has stage
\* executed once the execution phase is over, whatever the outcome of the
\* remote connect and whether or not the session was killed.
C1_ErrorBlocksExecuted ==
  (pc = "commit_send" /\ ctx.mode = "EXECUTE" /\ ~ctx.force
     /\ commit_level = ERRLEVEL_ERROR)
  => \A i \in DOMAIN ctx.cache_nodes :
        ctx.cache_nodes[i].stage # STAGE_EXECUTED

\* C2: in execute mode with ignore_warnings=false and force=false, when some
\* statement of the batch has err_level >= warning at magic_commit, none is
\* sent to the remote target and none ends with stage executed.
C2_WarningBlocksExecution ==
  (pc = "commit_send" /\ ctx.mode = "EXECUTE" /\ ~ctx.force
     /\ ~ctx.ignore_warnings /\ commit_level >= ERRLEVEL_WARNING)
  => /\ sent = <<>>
     /\ ~ \E i \in DOMAIN ctx.cache_nodes :
            ctx.cache_nodes[i].stage = STAGE_EXECUTED

\* C3: once killed is set, a statement whose dispatch has not begun does not
\* enter stage executed, whether the kill arrived before magic_commit or
\* between two statements of the execution loop.
C3_KilledNeverExecuted ==
  [][\A i \in DOMAIN ctx.cache_nodes :
       (/\ ctx.killed
        /\ i \in DOMAIN ctx'.cache_nodes
        /\ ctx.cache_nodes[i].id \notin Range(sent)
        /\ ctx.cache_nodes[i].stage # STAGE_EXECUTED)
       => ctx'.cache_nodes[i].stage # STAGE_EXECUTED]_vars

\* C4: after magic_commit has been processed on an active session, in each
\* of the four modes, the context is back to its reset state: active=false,
\* the caches, the batch schema and the altered set empty, next id 1,
\* killed=false, remote_exec_thread_id=0, no remote handle open.
C4_ResetAfterCommit ==
  CommitAnswered
  => /\ ~ctx.active
     /\ ctx.cache_nodes = <<>> /\ ctx.split_nodes = <<>>
     /\ ctx.tree_nodes = <<>>
     /\ ctx.batch_tables = {} /\ ctx.altered_tables = {}
     /\ ctx.next_id = 1
     /\ ~ctx.killed
     /\ ctx.remote_exec_thread_id = 0
     /\ ~ctx.remote_conn /\ ~mysql

\* C5: in check and execute mode the commit result set has exactly one row
\* for every statement recorded since magic_start, parse failures included,
\* in the order they were recorded, whatever the execution phase did.
C5_OneRowPerStatement ==
  reply.kind = "audit"
  => /\ Len(reply.rows) = Len(stream)
     /\ \A i \in DOMAIN stream : reply.rows[i].sql_type = stream[i]

\* C5 witness: a two-statement execute batch with a parse failure, part of
\* it dispatched, has been answered.
C5_Witness ==
  /\ reply.kind = "audit"
  /\ Len(reply.rows) >= 2
  /\ SQLCOM_END \in Range(stream)
  /\ sent # <<>>

\* C6: statement ids are 1, 2, 3, ... in stream order, the engine dispatches
\* in increasing id order, and the result set lists rows in increasing id
\* order.
C6_StreamOrder ==
  /\ ctx.mode \in {"CHECK", "EXECUTE"} /\ ctx.active
     => /\ Len(ctx.cache_nodes) = Len(stream)
        /\ \A i \in DOMAIN ctx.cache_nodes :
              /\ ctx.cache_nodes[i].id = i
              /\ ctx.cache_nodes[i].sql_command = stream[i]
  /\ \A i, j \in DOMAIN sent : i < j => sent[i] < sent[j]
  /\ reply.kind \in {"audit", "tree"}
     => \A i, j \in DOMAIN reply.rows : i < j => reply.rows[i].id < reply.rows[j].id

\* C6 witness: two statements were dispatched and the result set has been
\* sent.
C6_Witness ==
  /\ reply.kind = "audit"
  /\ Len(sent) >= 2
  /\ Len(reply.rows) >= 2

\* C7: the errlevel of a statement record never decreases and stays in
\* {ok, warning, error}, through every append_error, append_warning and
\* report of audit and execution.
C7_ErrlevelMonotone ==
  [][\A i \in DOMAIN ctx'.cache_nodes :
       /\ ctx'.cache_nodes[i].errlevel
            \in {ERRLEVEL_OK, ERRLEVEL_WARNING, ERRLEVEL_ERROR}
       /\ i \in DOMAIN ctx.cache_nodes
          => ctx'.cache_nodes[i].errlevel >= ctx.cache_nodes[i].errlevel]_vars

\* C7 witness: a record already at error level received a remote warning
\* afterwards.
C7_Witness ==
  \E i \in DOMAIN ctx.cache_nodes :
     /\ ctx.cache_nodes[i].errlevel = ERRLEVEL_ERROR
     /\ "Remote Warning" \in Range(ctx.cache_nodes[i].errmsg)

\* C8: a magic_start received while the session is active, and a
\* magic_commit received while it is idle, are each answered with an error
\* and leave the context unchanged.
C8_OutOfOrderMarkersRejected ==
  [][/\ (ctx.active /\ \E o \in StartOpts, connOk \in BOOLEAN :
                          SetupInceptionSession(o, connOk))
        => (reply'.kind = "error" /\ ctx' = ctx)
     /\ (~ctx.active /\ MagicCommit)
        => (reply'.kind = "error" /\ ctx' = ctx)]_vars

\* A result row that reports a parse failure.
IsParseErrorRow(r) ==
  /\ "err_level" \in DOMAIN r
  /\ r.err_level = ERRLEVEL_ERROR
  /\ ParseErrMsg \in Range(r.err_message)

\* C9: in every mode, each statement that failed to parse is exactly one
\* row with err_level=error in the batch's commit result set.
C9_ParseErrorRows ==
  CommitAnswered
  => Cardinality({i \in DOMAIN reply.rows : IsParseErrorRow(reply.rows[i])})
       = Cardinality({i \in DOMAIN stream : stream[i] = SQLCOM_END})

\* C10: in execute mode with force=false, after a statement failed on the
\* remote no later statement is sent, every remaining statement ends with
\* stage skipped and a reason message, and the failed statement carries the
\* remote error.
C10_SkipAfterFailure ==
  (pc = "commit_send" /\ ctx.mode = "EXECUTE" /\ ~ctx.force /\ failed # 0)
  => \A i \in DOMAIN ctx.cache_nodes :
        LET node == ctx.cache_nodes[i]
        IN /\ node.id = failed
              => /\ node.errlevel = ERRLEVEL_ERROR
                 /\ "Execute failed" \in Range(node.errmsg)
           /\ node.id > failed
              => /\ node.id \notin Range(sent)
                 /\ node.stage = STAGE_SKIPPED
                 /\ node.errmsg # <<>>

\* C11: a force kill against a session whose engine holds a non-zero
\* remote_exec_thread_id sends a KILL for exactly that thread id, and the
\* statements the loop reaches afterwards end with stage SKIPPED and
\* stage_status "Killed by user".
C11_ForceKillSkipsRest ==
  [][/\ (KillRemote(TRUE) /\ ctx.remote_exec_thread_id # 0)
        => kills' = kills \cup {ctx.remote_exec_thread_id}
     /\ (pc = "exec_loop" /\ idx' = idx + 1 /\ ctx.killed /\ kills # {})
        => /\ ctx'.cache_nodes[idx'].stage = STAGE_SKIPPED
           /\ ctx'.cache_nodes[idx'].stage_status = "Killed by user"]_vars

\* C12: during the audit of a check/execute batch, the batch schema has an
\* entry for (db, t) exactly when a CREATE TABLE db.t was audited earlier in
\* the batch without an error-level finding; a CREATE TABLE whose audit
\* reported an error adds no entry.
C12_BatchSchemaTracksSuccess ==
  (pc = "idle" /\ ctx.active /\ ctx.mode \in {"CHECK", "EXECUTE"})
  => (<<TheDb, TheTable>> \in ctx.batch_tables
        <=> \E i \in DOMAIN ctx.cache_nodes :
               /\ ctx.cache_nodes[i].sql_command = "CREATE_TABLE"
               /\ ctx.cache_nodes[i].errlevel < ERRLEVEL_ERROR)

\* C13: in split mode a grouped statement is appended to the last group if
\* and only if its (db, table) and its DDL/DML class equal those of the last
\* group, otherwise it starts a new group after the existing ones; no two
\* adjacent groups have the same (db, table, class); the result rows are
\* numbered 1..n in group order.
SameGroupKey(a, b) ==
  /\ a.db_name = b.db_name
  /\ a.table_name = b.table_name
  /\ a.is_ddl_type = b.is_ddl_type

C13_SplitGrouping ==
  [][/\ \A st \in SplitInputsFull :
          (InterceptSplit(st, MaxSplitStmts)
             /\ st.cmd \notin {"CHANGE_DB", "SET_OPTION"})
          => LET k == Len(ctx.split_nodes)
                 key == [db_name |-> DbNameOf(st, thd_db),
                         table_name |-> st.tbl,
                         is_ddl_type |-> IsDdl(st.cmd)]
             IN IF k > 0 /\ SameGroupKey(ctx.split_nodes[k], key)
                THEN /\ Len(ctx'.split_nodes) = k
                     /\ SubSeq(ctx'.split_nodes, 1, k - 1)
                          = SubSeq(ctx.split_nodes, 1, k - 1)
                     /\ ctx'.split_nodes[k].sql_text
                          = Append(ctx.split_nodes[k].sql_text, st)
                ELSE /\ Len(ctx'.split_nodes) = k + 1
                     /\ SubSeq(ctx'.split_nodes, 1, k) = ctx.split_nodes
                     /\ SameGroupKey(ctx'.split_nodes[k + 1], key)
                     /\ ctx'.split_nodes[k + 1].sql_text
                            [Len(ctx'.split_nodes[k + 1].sql_text)] = st
     /\ \A i \in 1..(Len(ctx'.split_nodes) - 1) :
          ~SameGroupKey(ctx'.split_nodes[i], ctx'.split_nodes[i + 1])
     /\ (CommitFinish /\ ctx.mode = "SPLIT")
          => /\ Len(reply'.rows) = Len(ctx.split_nodes)
             /\ \A i \in 1..Len(ctx.split_nodes) :
                  /\ reply'.rows[i].id = i
                  /\ reply'.rows[i].sql_statement
                       = ctx.split_nodes[i].sql_text
                  /\ reply'.rows[i].ddlflag = ctx.split_nodes[i].ddlflag]_vars

C13_Witness ==
  /\ reply.kind = "split"
  /\ Len(reply.rows) = 2
  /\ Len(reply.rows[1].sql_statement) = 3
  /\ reply.rows[2].ddlflag = 1

\* C14: the split grouper is idempotent: the statements of the groups built
\* so far, fed group by group to a fresh split session, give the same
\* groups with the same texts and ddlflags.
C14_SplitIdempotent ==
  (ctx.active /\ ctx.mode = "SPLIT")
  => Shown(Regroup(ctx.split_nodes)) = Shown(ctx.split_nodes)

\* C15: the predicted ddl_algorithm is the maximum over the operation flags
\* of the level of the operation alone (INSTANT < INPLACE < COPY), so one
\* more operation never lowers it; {ADD_COLUMN, ADD_INDEX} on an 8.0 target
\* is INPLACE, FORCE or an OPTIONS change of ENGINE make it COPY, RENAME
\* alone is INSTANT, ADD_COLUMN alone is INSTANT from major 8 on and INPLACE
\* below.
AlgorithmRank(name) ==
  IF name = "INSTANT" THEN 0 ELSE IF name = "INPLACE" THEN 1 ELSE 2

C15_AlgorithmIsMax ==
  alter.ddl_algorithm # ""
  => LET rank == AlgorithmRank(alter.ddl_algorithm)
         alone(op) == AlgorithmRank(PredictAlterAlgorithm(
                                      {op}, alter.used_engine, alter.major))
     IN /\ alter.ddl_algorithm \in {"INSTANT", "INPLACE", "COPY"}
        /\ \A op \in alter.flags : alone(op) <= rank
        /\ \/ \E op \in alter.flags : alone(op) = rank
           \/ alter.flags = {} /\ rank = 0
        /\ \A op \in AlterFlags :
             AlgorithmRank(PredictAlterAlgorithm(
                             alter.flags \cup {op}, alter.used_engine,
                             alter.major)) >= rank
        /\ (alter.flags = {"ALTER_ADD_COLUMN", "ALTER_ADD_INDEX"}
              /\ alter.major >= 8)
           => alter.ddl_algorithm = "INPLACE"
        /\ "ALTER_RECREATE" \in alter.flags => alter.ddl_algorithm = "COPY"
        /\ ("ALTER_OPTIONS" \in alter.flags /\ alter.used_engine)
           => alter.ddl_algorithm = "COPY"
        /\ alter.flags = {"ALTER_RENAME"} => alter.ddl_algorithm = "INSTANT"
        /\ alter.flags = {"ALTER_ADD_COLUMN"}
           => alter.ddl_algorithm
                = IF alter.major >= 8 THEN "INSTANT" ELSE "INPLACE"

C15_Witness ==
  /\ alter.flags = {"ALTER_ADD_COLUMN", "ALTER_ADD_INDEX", "ALTER_RECREATE"}
  /\ alter.major = 8
  /\ alter.ddl_algorithm = "COPY"

\* C16: statement-level audit-log lines are written only in execute mode,
\* and when execute_statements leaves its statement loop (the batch passed
\* the pre-scan) every statement of the batch has exactly one line.
C16_OneLinePerStatement ==
  [][/\ stmt_log' # stmt_log /\ stmt_log' # <<>> => ctx.mode = "EXECUTE"
     /\ (pc = "exec_loop" /\ pc' = "commit_send")
        => \A i \in DOMAIN ctx.cache_nodes :
              Cardinality({j \in DOMAIN stmt_log :
                             stmt_log[j] = ctx.cache_nodes[i].id}) = 1]_vars

\* C17: every magic_commit processed on an active session writes exactly
\* one session-level record, in every mode, with the number of statements
\* recorded and the number of them at error level; an empty batch writes
\* statements = 0, errors = 0 and returns an empty result set.
C17_SessionRecordEveryCommit ==
  [][(pc = "commit_send" /\ pc' = "idle")
     => /\ Len(session_log') = Len(session_log) + 1
        /\ session_log'[Len(session_log')].statements = Len(ctx.cache_nodes)
        /\ session_log'[Len(session_log')].errors
             = Cardinality({i \in DOMAIN ctx.cache_nodes :
                              ctx.cache_nodes[i].errlevel >= ERRLEVEL_ERROR})
        /\ stream = <<>> => reply'.rows = <<>>]_vars

\* C18: once the connection is closed its context is gone from the map (no
\* session is found for it) and no remote handle remains open.
C18_NoHandleAfterClose ==
  pc = "closed" => (~ctx.active /\ ~remote_open)

\* C19: the killed flag is monotone: once set it is not cleared while the
\* session stays active.
C19_KilledMonotone ==
  [][(ctx.killed /\ ctx.active /\ ctx'.active) => ctx'.killed]_vars

\* C20: remote_exec_thread_id is non-zero only while execute_statements is
\* running with its primary connection open; it is zero whenever the
\* execution engine is not in progress.
C20_ThreadIdOnlyWhileExecuting ==
  ctx.remote_exec_thread_id # 0 => (mysql /\ pc \in {"exec_loop", "inflight"})

\* C21: when the existence lookup of a statement fails to run on an open
\* connection, the statement gets no existence finding from it: neither
\* "does not exist" nor "already exists" on the remote.
C21_FailedLookupNoFinding ==
  [][\A in \in AuditInputsFull :
       (in.lookup = "failed" /\ ctx.remote_conn
          /\ \E connOk \in BOOLEAN : InterceptAudit(in, connOk))
       => LET node == ctx'.cache_nodes[Len(ctx'.cache_nodes)]
          IN "does not exist on remote" \notin Range(node.errmsg)
             /\ "exists on remote" \notin Range(node.errmsg)]_vars

\* C22: after a connect attempt to the remote target has failed, no further
\* connect attempt is made for the rest of the batch, neither by the audit
\* of later statements nor at magic_commit in execute mode.
C22_NoRetryAfterFailedConnect ==
  [][Len(connects') > Len(connects)
       => \A i \in DOMAIN connects : connects[i].ok]_vars

\* C23: the primary connection is opened lazily: magic_start makes no
\* connect attempt, and a split-mode batch makes none at all.
C23_LazyConnect ==
  /\ \A i \in DOMAIN connects : connects[i].by # "start"
  /\ (ctx.active /\ ctx.mode = "SPLIT") => connects = <<>>

C25_ForceOverridesErrors ==
  [][(/\ ExecBegin(TRUE)
      /\ ctx.cache_nodes # <<>>
      /\ ~ctx.killed
      /\ ctx.force
      /\ \E i \in DOMAIN ctx.cache_nodes :
            ctx.cache_nodes[i].errlevel = ERRLEVEL_ERROR
      /\ \A i \in DOMAIN ctx.cache_nodes :
            ctx.cache_nodes[i].errlevel # ERRLEVEL_WARNING)
     => pc' = "exec_loop"]_vars

\* C26: in execute mode with force on, a failed statement never stops the
\* batch: no statement is marked skipped.
C26_ForceNeverSkips ==
  (ctx.active /\ ctx.mode = "EXECUTE" /\ ctx.force)
  => \A i \in DOMAIN ctx.cache_nodes :
        ctx.cache_nodes[i].stage # STAGE_SKIPPED

\* C27: when the primary connect at the start of execution fails, every
\* statement gets the connection error (errlevel = error), nothing is sent,
\* no statement has stage executed, and the engine returns an error.
C27_ConnectFailureMarksAll ==
  [][(ExecBegin(FALSE) /\ ctx.cache_nodes # <<>> /\ ~ctx.killed)
     => /\ sent' = <<>>
        /\ has_error'
        /\ pc' = "commit_send"
        /\ \A i \in DOMAIN ctx'.cache_nodes :
             /\ ctx'.cache_nodes[i].errlevel = ERRLEVEL_ERROR
             /\ "Cannot connect to remote" \in Range(ctx'.cache_nodes[i].errmsg)
             /\ ctx'.cache_nodes[i].stage # STAGE_EXECUTED]_vars

\* C28: a statement whose read-only preflight returned ON or could not be
\* read is never sent to the remote: it keeps stage checked, gets an error,
\* and counts as a failure for the rest of the batch.
C28_ReadOnlyBlocksStatement ==
  [][/\ ((ExecNext("read_only") \/ ExecNext("query_failed"))
           /\ ~ctx.killed /\ ~stop_exec)
        => /\ sent' = sent
           /\ pc' = "exec_loop"
           /\ has_error' /\ stop_exec'
           /\ ctx'.cache_nodes[idx'].stage_status = "Pre-check failed"
     /\ \A i \in DOMAIN ctx'.cache_nodes :
          ctx'.cache_nodes[i].stage_status = "Pre-check failed"
          => /\ ctx'.cache_nodes[i].id \notin Range(sent')
             /\ ctx'.cache_nodes[i].stage = STAGE_CHECKED
             /\ ctx'.cache_nodes[i].errlevel = ERRLEVEL_ERROR
             /\ ctx'.cache_nodes[i].errmsg # <<>>]_vars

C28_Witness ==
  /\ pc = "commit_send"
  /\ Len(ctx.cache_nodes) = 2
  /\ sent = <<1>>
  /\ ctx.cache_nodes[1].stage = STAGE_EXECUTED
  /\ ctx.cache_nodes[2].stage_status = "Pre-check failed"

\* C29: with a throttle cap enabled, a statement is dispatched only after a
\* wait-for-ready poll in which Threads_running did not exceed its cap and
\* every replica of slave-hosts reported a Seconds_Behind_Master that is
\* not NULL and not above its cap.
C29_DispatchOnlyWhenReady ==
  [][(Len(sent') > Len(sent) /\ (throttle.threads_cap \/ throttle.delay_cap))
     => \E poll \in Polls :
          /\ WaitForRemoteReady(poll)
          /\ throttle.threads_cap
               => poll.threads.ok /\ poll.threads.running <= ThreadsCap
          /\ throttle.delay_cap
               => \A h \in throttle.slave_hosts :
                     /\ h \in throttle.reachable
                     /\ poll.delay[h].res = "value"
                     /\ poll.delay[h].seconds <= DelayCap]_vars

\* C30: cancellation is live: once killed is set while the execution engine
\* is running, the engine eventually returns, whatever the polls report.
C30_KillStopsEngine ==
  (ctx.killed /\ pc \in {"exec_loop", "wait_ready", "inflight"})
  ~> (pc \in {"commit_send", "idle"})

\* C31: the pause taken after a statement of the execution loop is the
\* sleep value last given before the loop finished that statement (the
\* latest completed `set sleep`, else the sleep option): the engine reads
\* sleep_ms once after the statement and sleeps for it, and takes no pause
\* when the value is 0 or when execution has been stopped by an error.
C31_SetSleepDeterminesPause ==
  [][\A res \in ExecResults :
       ExecComplete(res)
       => /\ Len(pauses') = Len(pauses) + 1
          /\ pauses'[Len(pauses')].id = ctx.cache_nodes[idx].id
          /\ pauses'[Len(pauses')].ms = IF stop_exec' THEN 0 ELSE sleep_set]_vars

\* A set sleep completed between the first and the second statement of the
\* loop: the pause after the second is the new value.
C31_Witness ==
  /\ Len(pauses) = 2
  /\ pauses[1].ms = 0
  /\ pauses[2].ms = sleep_set
  /\ sleep_set > 0
  /\ admin.op = "set_sleep" /\ admin.result = "ok"

\* C32: inception kill and inception set sleep act only on a context that
\* is active under the connection id they name; when there is none they are
\* answered with an error and change no context; and they change nothing
\* but killed (kill) or sleep_ms (set sleep) of that context.
C32_AdminCommandsTargetOnly ==
  [][/\ KillStore
        => /\ ctx.active
           /\ ctx' = [ctx EXCEPT !.killed = TRUE]
           /\ others' = others
     /\ SetSleepStore
        => /\ ctx.active
           /\ ctx' = [ctx EXCEPT !.sleep_ms = admin.ms]
           /\ others' = others
     /\ \A tid \in Tids :
          /\ KillSessionElsewhere(tid)
             => /\ ctx' = ctx
                /\ IF tid = OtherTid /\ others.active
                   THEN /\ others' = [others EXCEPT !.killed = TRUE]
                        /\ admin'.result = "ok"
                   ELSE /\ others' = others
                        /\ admin'.result = "error"
          /\ \A ms \in 0..MaxSleep :
               SetSleepFind(tid, ms)
               => /\ ctx' = ctx
                  /\ IF tid = OwnerTid /\ ctx.active
                     THEN others' = others /\ admin'.result = "pending"
                     ELSE IF tid = OtherTid /\ others.active
                     THEN /\ others' = [others EXCEPT !.sleep_ms = ms]
                          /\ admin'.result = "ok"
                     ELSE /\ others' = others
                          /\ admin'.result = "error"]_vars

\* The owner thread is inside code that writes its statement cache: the
\* reset of magic_start and of magic_commit, the execution loop.
OwnerWritesCache ==
  pc \in {"start_setup", "exec_begin", "exec_loop", "inflight", "commit_send"}

\* C33: an access to a session's context by another session excludes the
\* owner's own access to the same fields: show sessions never iterates the
\* statement cache while the owner writes it, and set sleep never writes
\* sleep_ms while the execution engine is about to read it.
C33_AdminAccessExcluded ==
  /\ kpc = "show" => ~OwnerWritesCache
  /\ kpc = "sleep_found" => pc # "inflight"

\* The record of the statement just audited had the handler made no rule
\* report for it.
WithoutRuleReport(in, connOk) ==
  LET c == AuditStatement(AddSql(ctx, in.cmd), [in EXCEPT !.rules = <<>>],
                          connOk)
  IN c.cache_nodes[Len(c.cache_nodes)]

\* C34: a rule report with severity off changes nothing in the statement
\* record; a report with severity warning or error appends exactly one
\* message line and sets errlevel to the maximum of its old value and the
\* rule's severity.
C34_ReportEffect ==
  [][\A in \in AuditInputsFull, connOk \in BOOLEAN :
       (InterceptAudit(in, connOk) /\ Len(in.rules) = 1)
       => LET old == WithoutRuleReport(in, connOk)
              new == ctx'.cache_nodes[Len(ctx'.cache_nodes)]
              level == in.rules[1]
          IN IF level = 0
             THEN new = old
             ELSE /\ Len(new.errmsg) = Len(old.errmsg) + 1
                  /\ "rule" \in Range(new.errmsg)
                  /\ new.errlevel = Max(old.errlevel, level)
                  /\ [new EXCEPT !.errmsg = old.errmsg,
                                 !.errlevel = old.errlevel] = old]_vars

\* A warning-level rule report on a statement that already has an
\* error-level finding: one more line, the level stays at error.
C34_Witness ==
  /\ Len(ctx.cache_nodes) = 1
  /\ ctx.cache_nodes[1].errmsg = <<"exists on remote", "rule">>
  /\ ctx.cache_nodes[1].errlevel = ERRLEVEL_ERROR

\* The record of the statement the audit step has just finished.
AuditedNode == ctx'.cache_nodes[Len(ctx'.cache_nodes)]

\* The last CREATE TABLE or DROP TABLE among the statements is a DROP TABLE.
DroppedLast(s) ==
  \E i \in DOMAIN s :
    /\ s[i] = "DROP_TABLE"
    /\ \A j \in (i + 1)..Len(s) : s[j] # "CREATE_TABLE"

\* C35: once DROP TABLE db.t is audited the batch schema has no entry for
\* (db, t); a CREATE TABLE db.t that follows is not reported as created
\* earlier in the batch, and a statement on db.t that follows probes the
\* remote for the table again.
C35_DropTableForgets ==
  [][\A in \in SchemaInputs, connOk \in BOOLEAN :
       InterceptAuditWithin(in, connOk, MaxSchemaStmts)
       => /\ DroppedLast(stream') => BatchTableKey \notin ctx'.batch_tables
          /\ (DroppedLast(stream) /\ in.cmd = "CREATE_TABLE")
             => "exists in batch" \notin Range(AuditedNode.errmsg)
          /\ (DroppedLast(stream) /\ ctx'.remote_conn
              /\ in.cmd \in {"ALTER_TABLE", "INSERT", "TRUNCATE"})
             => "exists" \in AuditResult(AddSql(ctx, in.cmd), in,
                                         connOk).probes]_vars

\* C36: the batch databases hold a name exactly when a CREATE DATABASE of
\* that name was audited earlier in the batch: the set starts empty, CREATE
\* DATABASE adds its name, no other statement (DROP DATABASE included)
\* changes the set.
C36_BatchDatabases ==
  [][\A in \in SchemaInputs, connOk \in BOOLEAN :
       InterceptAuditWithin(in, connOk, MaxSchemaStmts)
       => ctx'.batch_databases =
            IF in.cmd = "CREATE_DB"
            THEN ctx.batch_databases \cup {in.db}
            ELSE ctx.batch_databases]_vars

\* The column set tracked for the table of the model.
TrackedCols(c) ==
  {e[3] : e \in {x \in c.batch_cols : <<x[1], x[2]>> = BatchTableKey}}

\* C37: the column set of a tracked table is the created columns plus the
\* added minus the dropped ones, names compared without regard to case;
\* adding a column that is in the set and dropping one that is not are
\* reported at error level, and the erroneous drop leaves the set as it
\* was.
C37_TrackedColumns ==
  [][\A in \in SchemaInputs, connOk \in BOOLEAN :
       InterceptAuditWithin(in, connOk, MaxSchemaStmts)
       => LET old == TrackedCols(ctx)
              new == TrackedCols(ctx')
              tracked == BatchTableKey \in ctx.batch_tables
          IN /\ (in.cmd = "CREATE_TABLE" /\ ~tracked)
                => new = {Lower(col) : col \in in.cols}
             /\ (in.cmd = "ALTER_TABLE" /\ tracked)
                => /\ \A col \in in.cols :
                        /\ new = old \cup {Lower(col)}
                        /\ ("column already exists"
                              \in Range(AuditedNode.errmsg))
                           <=> Lower(col) \in old
                        /\ Lower(col) \in old
                           => AuditedNode.errlevel = ERRLEVEL_ERROR
                   /\ \A col \in in.drops :
                        /\ new = old \ {Lower(col)}
                        /\ ("column does not exist"
                              \in Range(AuditedNode.errmsg))
                           <=> Lower(col) \notin old
                        /\ Lower(col) \notin old
                           => AuditedNode.errlevel = ERRLEVEL_ERROR
             /\ in.cmd \notin {"CREATE_TABLE", "ALTER_TABLE"}
                => new = old]_vars

\* CREATE TABLE with columns A and b, a drop of column a that succeeds, then
\* a drop of a column that is no longer tracked: an error, and the set
\* stays as it was.
C37_Witness ==
  /\ stream = <<"CREATE_TABLE", "ALTER_TABLE", "ALTER_TABLE">>
  /\ ctx.active
  /\ TrackedCols(ctx) = {"b"}
  /\ "dropping column" \in Range(ctx.cache_nodes[2].errmsg)
  /\ "column does not exist" \notin Range(ctx.cache_nodes[2].errmsg)
  /\ "column does not exist" \in Range(ctx.cache_nodes[3].errmsg)
  /\ ctx.cache_nodes[3].errlevel = ERRLEVEL_ERROR

\* C38: while the batch schema has an entry for (db, t), the audit of an
\* ALTER TABLE, INSERT, UPDATE, DELETE or TRUNCATE on db.t sends the remote
\* no query about db.t: no existence lookup, no row count, no EXPLAIN.
C38_BatchTableNotProbed ==
  [][\A in \in SchemaInputs, connOk \in BOOLEAN :
       (/\ InterceptAuditWithin(in, connOk, MaxSchemaStmts)
        /\ BatchTableKey \in ctx.batch_tables
        /\ in.cmd \in {"ALTER_TABLE", "INSERT", "UPDATE", "DELETE",
                       "TRUNCATE"})
       => AuditResult(AddSql(ctx, in.cmd), in, connOk).probes = {}]_vars

\* The statements of the batch that carry the connection error of the
\* audit.
ConnectErrorNodes(c) ==
  {i \in DOMAIN c.cache_nodes :
     "Cannot connect to remote server" \in Range(c.cache_nodes[i].errmsg)}

\* C39: a failed connect to the remote is recorded on one statement of the
\* batch only, the one audited when the connect was attempted; the
\* statements audited after it do not get the connection error again.
C39_ConnectErrorOnce ==
  ctx.active => Cardinality(ConnectErrorNodes(ctx)) <= 1

\* The group has a statement that is an ALTER TABLE or a DROP TABLE.
HasHighRisk(group) ==
  \E j \in DOMAIN group.sql_text :
    group.sql_text[j].cmd \in {"ALTER_TABLE", "DROP_TABLE"}

\* C40: in split mode the ddlflag of a group is 1 exactly when the group
\* has an ALTER TABLE or a DROP TABLE; merging a statement never takes it
\* from 1 back to 0; USE and SET create no group and change no group.
C40_DdlFlag ==
  [][/\ \A i \in DOMAIN ctx'.split_nodes :
          /\ ctx'.split_nodes[i].ddlflag \in {0, 1}
          /\ ctx'.split_nodes[i].ddlflag = 1
             <=> HasHighRisk(ctx'.split_nodes[i])
     /\ \A st \in DdlFlagInputs :
          InterceptSplit(st, MaxSplitStmts)
          => /\ \A i \in DOMAIN ctx.split_nodes :
                  ctx.split_nodes[i].ddlflag = 1
                  => ctx'.split_nodes[i].ddlflag = 1
             /\ st.cmd \in {"CHANGE_DB", "SET_OPTION"}
                => ctx'.split_nodes = ctx.split_nodes]_vars

\* CREATE TABLE, SET, then DROP TABLE on the same table: one group, its
\* ddlflag raised to 1 by the merged DROP TABLE.
C40_Witness ==
  /\ stream = <<"CREATE_TABLE", "SET_OPTION", "DROP_TABLE">>
  /\ ctx.mode = "SPLIT"
  /\ Len(ctx.split_nodes) = 1
  /\ ctx.split_nodes[1].ddlflag = 1
  /\ ~(\E j \in DOMAIN ctx.split_nodes[1].sql_text :
         ctx.split_nodes[1].sql_text[j].cmd = "ALTER_TABLE")

====
